---- MODULE Spec2Model ----
(***************************************************************************)
(* Multi-Cam Sprite Renderer: the camera ring, the render-dimension check, *)
(* the per-camera frame loop with duplicate-frame skipping, the sprite     *)
(* sheet compositor and the metadata generator, as state machines.         *)
(*                                                                         *)
(* Python values are modelled with integers, sequences and records.  A     *)
(* call of a function ends either in Return(v) or in Raise(e).             *)
(***************************************************************************)
EXTENDS Integers, Sequences, FiniteSets, TLC

VARIABLES
    call,           \* SpecPure: the function applied and its arguments
    ret,            \* SpecPure: Pending, or the outcome of the call
    scene,          \* the scene: MCSR properties, render settings, camera, frame, nodes
    target,         \* the object rendered: location, MCSR settings, animation data
    render_params,  \* the dict _validate_prerequisites returns, later updated
    self,           \* the mcsr.render operator: attributes, reports, result
    wm,             \* the window manager's progress indicator
    data_objects,   \* bpy.data.objects: the names of the objects that exist
    fs,             \* the file system: directories and files written
    pc,             \* where mcsr.render stands
    loc,            \* the locals of the loops of mcsr.render
    panel           \* SpecPanel: the object list, the preview and the settings

pureVars == <<call, ret>>
opVars == <<scene, target, render_params, self, wm, data_objects, fs, pc, loc>>
vars == <<call, ret, scene, target, render_params, self, wm, data_objects, fs, pc, loc, panel>>

-----------------------------------------------------------------------------
(* Python values and call outcomes *)

PyInt(n) == [type |-> "int", val |-> n]
PyList(s) == [type |-> "list", val |-> s]
Return(v) == [exc |-> "none", value |-> v]
Raise(e) == [exc |-> e]
Pending == [exc |-> "pending"]
Returned(r) == r.exc = "none"

Max(a, b) == IF a >= b THEN a ELSE b

RECURSIVE SumSeq(_)
SumSeq(s) == IF s = <<>> THEN 0 ELSE Head(s) + SumSeq(Tail(s))

-----------------------------------------------------------------------------
(* camera_utils.py: the camera ring *)

\* properties.py: camera_count has min=1, max=24
MinCameraCount == 1
MaxCameraCount == 24

\* An angle is kept as the direction it denotes: cos = c/d, sin = s/d with
\* c*c + s*s = d*d, so that the rotation about Z is exact on the integers.
AngleTable ==
    << [c |-> 5, s |-> 0, d |-> 5],   [c |-> 4, s |-> 3, d |-> 5],
       [c |-> 3, s |-> 4, d |-> 5],   [c |-> 0, s |-> 5, d |-> 5],
       [c |-> -3, s |-> 4, d |-> 5],  [c |-> -4, s |-> 3, d |-> 5],
       [c |-> -5, s |-> 0, d |-> 5],  [c |-> -4, s |-> -3, d |-> 5],
       [c |-> -3, s |-> -4, d |-> 5], [c |-> 0, s |-> -5, d |-> 5],
       [c |-> 3, s |-> -4, d |-> 5],  [c |-> 4, s |-> -3, d |-> 5] >>

ZeroAngle == AngleTable[1]

VecSub(a, b) == <<a[1] - b[1], a[2] - b[2], a[3] - b[3]>>
VecAdd(a, b) == <<a[1] + b[1], a[2] + b[2], a[3] + b[3]>>

\* Matrix.Rotation(angle_rad, 4, "Z") @ v.  The vectors of the model have x and
\* y divisible by angle.d, so the division is exact.
RotationZ(angle, v) ==
    << (angle.c * v[1] - angle.s * v[2]) \div angle.d,
       (angle.s * v[1] + angle.c * v[2]) \div angle.d,
       v[3] >>

\* Euler.rotate(rotation_matrix): the rotation the Euler triple denotes is
\* multiplied from the left.  An Euler rotation is kept as the images of the
\* three axes (the columns of its matrix), each of length 5.
EulerRotate(euler, angle) == [i \in 1..3 |-> RotationZ(angle, euler[i])]

NoCamera == [name |-> "None"]

\* A slip of sign: the offset added to the center instead of subtracted.
RingPoseOffsetAdded(center, reference_camera, angle) ==
    LET ref_to_center == VecSub(center, reference_camera.location)
        offset == RotationZ(angle, ref_to_center)
    IN  << VecAdd(center, offset),
           EulerRotate(reference_camera.rotation_euler, angle) >>

\* The body of the loop of calculate_camera_positions: one pose of the ring.
RingPose(center, reference_camera, angle) ==
    LET ref_to_center == VecSub(center, reference_camera.location)
        offset == RotationZ(angle, ref_to_center)
        position == VecSub(center, offset)
        rotation == EulerRotate(reference_camera.rotation_euler, angle)
    IN  <<position, rotation>>

\* The reference pose appended and the loop still started at index 0.
calculate_camera_positions_from_zero(center, camera_angles, reference_camera, include_reference) ==
    IF reference_camera = NoCamera THEN Raise("ValueError")
    ELSE IF camera_angles.type # "list" THEN Raise("TypeError")
    ELSE LET first == IF include_reference
                      THEN << <<reference_camera.location,
                                reference_camera.rotation_euler>> >>
                      ELSE <<>>
             rest == [k \in 1..Len(camera_angles.val) |->
                        RingPose(center, reference_camera,
                                 camera_angles.val[k].angle)]
         IN  Return(first \o rest)

\* calculate_camera_positions(center, camera_angles, reference_camera,
\* include_reference).  len() of a value that is no collection raises TypeError.
calculate_camera_positions(center, camera_angles, reference_camera, include_reference) ==
    IF reference_camera = NoCamera THEN Raise("ValueError")
    ELSE IF camera_angles.type # "list" THEN Raise("TypeError")
    ELSE LET n == Len(camera_angles.val)
             start_index == IF include_reference THEN 1 ELSE 0
             first == IF include_reference
                      THEN << <<reference_camera.location,
                                reference_camera.rotation_euler>> >>
                      ELSE <<>>
             \* range(start_index, len(camera_angles))
             count == IF n > start_index THEN n - start_index ELSE 0
             rest == [k \in 1..count |->
                        RingPose(center, reference_camera,
                                 camera_angles.val[start_index + k].angle)]
         IN  Return(first \o rest)

-----------------------------------------------------------------------------
(* Inputs of the camera ring *)

Centers == { <<0, 0, 0>>, <<5, -10, 1>> }
ReferenceLocations == { <<0, -10, 5>>, <<15, 5, 3>> }
ReferenceRotations ==
    { << <<5, 0, 0>>, <<0, 5, 0>>, <<0, 0, 5>> >>,      \* Euler (0, 0, 0)
      << <<5, 0, 0>>, <<0, 0, 5>>, <<0, -5, 0>> >>,     \* Euler (90, 0, 0)
      << <<0, 5, 0>>, <<0, 0, 5>>, <<5, 0, 0>> >> }     \* Euler (90, 0, 90)
ReferenceCameras ==
    { [name |-> "Camera", location |-> l, rotation_euler |-> r] :
        l \in ReferenceLocations, r \in ReferenceRotations }

\* Strides and starts of the angle lists drawn: list entry i holds the angle
\* AngleTable[(start + i * stride) mod 12].
AngleStrides == {0, 1, 5}
AngleStarts == {0, 2, 7}
AngleList(n, start, stride) ==
    [i \in 1..n |->
        [angle |-> AngleTable[((start + (i - 1) * stride) % Len(AngleTable)) + 1]]]
AngleLists ==
    { AngleList(n, st, sd) :
        n \in 0..MaxCameraCount, st \in AngleStarts, sd \in AngleStrides }

CameraCalls ==
    { [fn |-> "calculate_camera_positions", center |-> c,
       camera_angles |-> PyList(a), reference_camera |-> r,
       include_reference |-> inc] :
        c \in Centers, a \in AngleLists, r \in ReferenceCameras,
        inc \in BOOLEAN }
    \cup
    { [fn |-> "calculate_camera_positions", center |-> c,
       camera_angles |-> a, reference_camera |-> r,
       include_reference |-> TRUE] :
        c \in Centers,
        a \in {PyInt(MinCameraCount), PyList(AngleList(2, 0, 1))},
        r \in {NoCamera} \cup ReferenceCameras }

-----------------------------------------------------------------------------
(* render_utils.py: validate_render_dimensions *)

MAX_TEXTURE_SIZE == 16384

\* An action is its name and its frame_range; NoAction is Python's None.
NoAction == [name |-> "None"]
Action(name, first, last) == [name |-> name, frame_range |-> <<first, last>>]

\* math.ceil(math.sqrt(n)) for an integer n >= 0
CeilSqrt(n) == CHOOSE c \in 0..n : c * c >= n /\ (c = 0 \/ (c - 1) * (c - 1) < n)

\* math.ceil(a / b) for integers a >= 0, b > 0
CeilDiv(a, b) == (a + b - 1) \div b

\* int(scene_render * resolution_percentage / 100.0)
ScaledResolution(scene_render, resolution_percentage) ==
    (scene_render * resolution_percentage) \div 100

\* frame_count of one entry of actions_to_render: None counts as 1 frame
ActionFrameCount(action) ==
    IF action # NoAction
    THEN action.frame_range[2] - action.frame_range[1] + 1
    ELSE 1

\* The loop that finds the maximum frame count across all actions
RECURSIVE MaxFrameCount(_, _)
MaxFrameCount(total_frames, actions) ==
    IF actions = <<>> THEN total_frames
    ELSE MaxFrameCount(Max(total_frames, ActionFrameCount(Head(actions))),
                       Tail(actions))

\* One row too many whenever the frames fill the last row.
GridRowsExtraRow(total_frames, grid_cols) == (total_frames \div grid_cols) + 1

\* grid_rows = math.ceil(total_frames / grid_cols)
GridRows(total_frames, grid_cols) == CeilDiv(total_frames, grid_cols)

\* The limit checked on the width alone.
WithinTextureLimitWidthOnly(final_width, final_height) ==
    final_width <= MAX_TEXTURE_SIZE

\* is_valid = final_width <= MAX_TEXTURE_SIZE and final_height <= MAX_TEXTURE_SIZE
WithinTextureLimit(final_width, final_height) ==
    /\ final_width <= MAX_TEXTURE_SIZE
    /\ final_height <= MAX_TEXTURE_SIZE

\* validate_render_dimensions(scene_render_x, scene_render_y,
\* resolution_percentage, actions_to_render) -> (is_valid, render_params).
\* With no action at all grid_cols is 0 and total_frames / grid_cols raises.
validate_render_dimensions(scene_render_x, scene_render_y, resolution_percentage, actions_to_render) ==
    LET actual_render_x == ScaledResolution(scene_render_x, resolution_percentage)
        actual_render_y == ScaledResolution(scene_render_y, resolution_percentage)
        total_frames == MaxFrameCount(0, actions_to_render)
        grid_cols == CeilSqrt(total_frames)
        grid_rows == GridRows(total_frames, grid_cols)
        final_width == actual_render_x * grid_cols
        final_height == actual_render_y * grid_rows
        is_valid == WithinTextureLimit(final_width, final_height)
        error_msg == IF ~is_valid THEN "Animation too large" ELSE ""
    IN  IF grid_cols = 0 THEN Raise("ZeroDivisionError")
        ELSE Return(<< is_valid,
                       [actual_render_x |-> actual_render_x,
                        actual_render_y |-> actual_render_y,
                        total_frames |-> total_frames,
                        grid_cols |-> grid_cols,
                        grid_rows |-> grid_rows,
                        error_message |-> error_msg] >>)

-----------------------------------------------------------------------------
(* render_utils.py: generate_metadata_dict *)

\* frame_durations is None or a dict from pass name to a list of duration
\* lists; a dict is kept as its keys in insertion order and its values.
NoDurations == [type |-> "None"]
DurationsDict(keys, vals) == [type |-> "dict", keys |-> keys, vals |-> vals]

\* Column and row of the sprite exchanged.
SpriteDataTransposed(sprite_idx, grid_cols, frame_width, frame_height, duration) ==
    [x |-> (sprite_idx \div grid_cols) * frame_width,
     y |-> (sprite_idx % grid_cols) * frame_height,
     frames |-> duration]

\* One entry of "sprites"; sprite_idx counts from 0.
SpriteData(sprite_idx, grid_cols, frame_width, frame_height, duration) ==
    [x |-> (sprite_idx % grid_cols) * frame_width,
     y |-> (sprite_idx \div grid_cols) * frame_height,
     frames |-> duration]

\* if frame_durations and frame_durations.keys()
HasDurationData(frame_durations) ==
    /\ frame_durations.type = "dict"
    /\ frame_durations.keys # <<>>

\* The durations the entry of action action_idx (from 0) is built from
ActionSpecificDurations(frame_durations, action_idx) ==
    LET first_pass == frame_durations.keys[1]
    IN  IF action_idx < Len(frame_durations.vals[first_pass])
        THEN frame_durations.vals[first_pass][action_idx + 1]
        ELSE <<>>

\* The sprites of one action of generate_metadata_dict
SpritesData(action_idx, action, frame_width, frame_height, grid_cols, frame_durations) ==
    IF HasDurationData(frame_durations)
    THEN LET ds == ActionSpecificDurations(frame_durations, action_idx)
         IN  [k \in 1..Len(ds) |->
                SpriteData(k - 1, grid_cols, frame_width, frame_height, ds[k])]
    ELSE [k \in 1..ActionFrameCount(action) |->
            SpriteData(k - 1, grid_cols, frame_width, frame_height, 1)]

\* How many sprites an action gets (no sprite is computed with grid_cols = 0)
SpriteCount(action_idx, action, frame_durations) ==
    IF HasDurationData(frame_durations)
    THEN Len(ActionSpecificDurations(frame_durations, action_idx))
    ELSE ActionFrameCount(action)

\* generate_metadata_dict(actions_to_render, fps, frame_width, frame_height,
\* grid_cols, enabled_passes, frame_durations=None)
generate_metadata_dict(actions_to_render, fps, frame_width, frame_height, grid_cols, enabled_passes, frame_durations) ==
    IF /\ grid_cols = 0
       /\ \E i \in 1..Len(actions_to_render) :
             SpriteCount(i - 1, actions_to_render[i], frame_durations) > 0
    THEN Raise("ZeroDivisionError")
    ELSE Return(
        [fps |-> fps,
         frameDimensions |-> [width |-> frame_width, height |-> frame_height],
         passes |-> enabled_passes,
         actions |->
            [i \in 1..Len(actions_to_render) |->
                [name |-> IF actions_to_render[i] # NoAction
                          THEN actions_to_render[i].name ELSE "_default",
                 sprites |-> SpritesData(i - 1, actions_to_render[i],
                                         frame_width, frame_height, grid_cols,
                                         frame_durations)]]])

-----------------------------------------------------------------------------
(* utils.py: create_sprite_sheet_from_temp_files *)

\* An image is its size and its float buffer: 4 channels a pixel, the rows
\* stored bottom-up as the host stores them.  A float is kept as an integer,
\* 0 being 0.0.
Image(width, height, pixels) == [width |-> width, height |-> height, pixels |-> pixels]

\* The sheet row not flipped: dest_y = start_y + y.
DestIdxNoFlip(x, y, start_x, start_y, sheet_width, sheet_height) ==
    ((start_y + y) * sheet_width + (start_x + x)) * 4

\* dest_idx of the pixel copied for (x, y) of a sprite placed at (start_x, start_y)
DestIdx(x, y, start_x, start_y, sheet_width, sheet_height) ==
    LET dest_x == start_x + x
        dest_y == sheet_height - 1 - (start_y + y)
    IN  (dest_y * sheet_width + dest_x) * 4

\* src_idx of the pixel copied for (x, y)
SrcIdx(x, y, actual_width, actual_height) ==
    LET src_y == actual_height - 1 - y
    IN  (src_y * actual_width + x) * 4

\* The copy loop over one image: pixels[dest_idx : dest_idx + 4] =
\* img_pixels[src_idx : src_idx + 4] for y, x in loop order, a later copy
\* overwriting an earlier one.  g holds the layout of the sheet.
CopySprite(pixels, img, i, g) ==
    LET col == i % g.cols
        row == i \div g.cols
        start_x == col * (g.actual_img_width + g.spacing)
        start_y == row * (g.actual_img_height + g.spacing)
        Copies(q) ==
            { xy \in (0..(img.width - 1)) \X (0..(img.height - 1)) :
                /\ DestIdx(xy[1], xy[2], start_x, start_y,
                           g.sheet_width, g.sheet_height) = q
                /\ SrcIdx(xy[1], xy[2], img.width, img.height) < Len(img.pixels)
                /\ q < Len(pixels) }
        Last(S) ==
            CHOOSE xy \in S : \A o \in S :
                o[2] < xy[2] \/ (o[2] = xy[2] /\ o[1] <= xy[1])
    IN  [d \in 1..Len(pixels) |->
            LET q == ((d - 1) \div 4) * 4
                j == (d - 1) % 4
            IN  IF Copies(q) = {} THEN pixels[d]
                ELSE LET xy == Last(Copies(q))
                     IN  img.pixels[SrcIdx(xy[1], xy[2], img.width, img.height)
                                    + j + 1]]

\* for i in range(camera_count): ... if i < len(temp_files)
RECURSIVE CompositeSprites(_, _, _, _, _)
CompositeSprites(pixels, i, camera_count, temp_files, g) ==
    IF i >= camera_count THEN pixels
    ELSE CompositeSprites(
            IF i < Len(temp_files)
            THEN CopySprite(pixels, temp_files[i + 1], i, g)
            ELSE pixels,
            i + 1, camera_count, temp_files, g)

\* create_sprite_sheet_from_temp_files(temp_dir, camera_count, spacing, ...):
\* temp_files is sorted(glob(...)), first_match the place in it of the file
\* glob lists first, whose size lays out the sheet.  The value is the sheet
\* that is saved.
create_sprite_sheet_from_temp_files(temp_files, first_match, camera_count, spacing) ==
    LET cols == CeilSqrt(camera_count)
    IN  IF cols = 0 THEN Raise("ZeroDivisionError")
        ELSE IF temp_files = <<>> THEN Raise("AssertionError")
        ELSE
        LET rows == CeilDiv(camera_count, cols)
            actual_img_width == temp_files[first_match].width
            actual_img_height == temp_files[first_match].height
            sheet_width == cols * actual_img_width + (cols - 1) * spacing
            sheet_height == rows * actual_img_height + (rows - 1) * spacing
            g == [cols |-> cols,
                  actual_img_width |-> actual_img_width,
                  actual_img_height |-> actual_img_height,
                  spacing |-> spacing,
                  sheet_width |-> sheet_width,
                  sheet_height |-> sheet_height]
            blank == [k \in 1..(sheet_width * sheet_height * 4) |-> 0]
        IN  Return(Image(sheet_width, sheet_height,
                         CompositeSprites(blank, 0, camera_count, temp_files, g)))

-----------------------------------------------------------------------------
(* Inputs of the pure functions *)

\* Bounds of the inputs drawn
MaxFrameRangeEnd == 30   \* largest last frame of an action
MaxActions == 2          \* longest list of actions
MaxSprites == 5          \* most cameras of a sprite sheet
MaxSpriteSize == 2       \* largest width and height of a rendered image
MaxSpacing == 2          \* widest spacing of a sprite sheet
MaxGridCols == 3         \* widest metadata grid

\* The actions an object may hold: frame ranges [first, last], first <= last
Actions ==
    { Action("Idle", 1, 1) }
    \cup { Action("Walk", 1, l) : l \in 2..MaxFrameRangeEnd }
    \cup { Action("Run", 0, l) : l \in {1, MaxFrameRangeEnd} }

\* The actions the longer lists are made of
ListActions == { Action("Idle", 1, 1), Action("Walk", 1, 4), Action("Run", 0, 1) }

SeqsUpTo(S, n) == UNION { [1..k -> S] : k \in 0..n }

\* actions_to_render: the actions of the slots, or [None] with no slot
ActionLists ==
    { <<a>> : a \in Actions }
    \cup { s \in SeqsUpTo(ListActions, MaxActions) : s # <<>> }
    \cup { <<NoAction>> }

\* resolution_x, resolution_y and resolution_percentage of the scene
Resolutions == { <<1920, 1080, 100>>, <<8192, 8192, 50>>, <<4097, 4000, 100>>,
                 <<5462, 5461, 100>>, <<16384, 16385, 100>>, <<3001, 8192, 33>> }

DimensionCalls ==
    { [fn |-> "validate_render_dimensions", scene_render_x |-> r[1],
       scene_render_y |-> r[2], resolution_percentage |-> r[3],
       actions_to_render |-> a] :
        r \in Resolutions, a \in ActionLists \cup { <<>> } }

PassLists == { <<"lit">>, <<"lit", "normal">>, <<"diffuse", "specular">> }

MetadataCalls ==
    { [fn |-> "generate_metadata_dict", actions_to_render |-> a, fps |-> 24,
       frame_width |-> w, frame_height |-> 2 * w, grid_cols |-> gc,
       enabled_passes |-> ps, frame_durations |-> fd] :
        a \in { s \in ActionLists \cup { <<NoAction, Action("Walk", 1, 4)>> } :
                  \A i \in 1..Len(s) : ActionFrameCount(s[i]) <= MaxGridCols * 2 },
        w \in {16, 50}, gc \in 1..MaxGridCols, ps \in {<<"lit", "normal">>},
        fd \in { NoDurations, DurationsDict(<<>>, <<>>),
                 DurationsDict(<<"lit", "normal">>,
                     [ps2 \in {"lit", "normal"} |-> << <<1, 2>>, <<3>> >>]) } }

\* The rendered image of camera i (from 0): every channel holds its own value
RenderedImage(i, width, height) ==
    Image(width, height, [k \in 1..(width * height * 4) |-> (i + 1) * 1000 + k])

\* All the files of one pass come from one render setting: one size
SheetCalls ==
    UNION { { [fn |-> "create_sprite_sheet_from_temp_files",
               temp_files |-> [i \in 1..nf |-> RenderedImage(i - 1, w, h)],
               first_match |-> fm, camera_count |-> n, spacing |-> s] :
                n \in 1..MaxSprites, fm \in {1, nf},
                w \in 1..MaxSpriteSize, h \in 1..MaxSpriteSize,
                s \in 0..MaxSpacing } : nf \in 1..MaxSprites }

-----------------------------------------------------------------------------
(* operators/render_operator.py: the helpers of the frame loop *)

Range(s) == { s[i] : i \in 1..Len(s) }

\* A rendered frame file of the temporary directory is named by its pass and
\* its frame number: f"{pass_name}{current_frame:04d}.png".  NoPath is None.
FramePath(pass_name, current_frame) == <<pass_name, current_frame>>
NoPath == <<>>

\* collect_frame_paths(temp_dir, current_frame, enabled_passes)
collect_frame_paths(current_frame, enabled_passes) ==
    [p \in Range(enabled_passes) |-> FramePath(p, current_frame)]

\* The image a file of the temporary directory holds
ImageAt(files, path) == (CHOOSE f \in files : f.path = path).image

\* A channel of a pixel is a whole number of hundred-thousandths, so that the
\* luminance (times 1000) and the threshold 0.00003 are integers.
\* 1000 * (0.299 * r + 0.587 * g + 0.114 * b)
Luminance(pixels, pixel_idx) ==
    299 * pixels[pixel_idx + 1] + 587 * pixels[pixel_idx + 2] + 114 * pixels[pixel_idx + 3]

\* Every pixel is a sample: a step of one whatever the size.
SampleStepOne(size) == 1

\* step_x = max(1, width // sample_size), step_y likewise
SampleStep(size) == Max(1, size \div 8)

\* The pixels of the sampling grid in the order of the two loops:
\* for y in range(0, height, step_y): for x in range(0, width, step_x)
SamplePoints(width, height) ==
    LET step_x == SampleStep(width)
        step_y == SampleStep(height)
        nx == (width + step_x - 1) \div step_x
        ny == (height + step_y - 1) \div step_y
    IN  [k \in 1..(nx * ny) |-> <<((k - 1) % nx) * step_x, ((k - 1) \div nx) * step_y>>]

\* are_images_very_similar(image_path1, image_path2): False when a file is
\* missing or the sizes differ; otherwise the average difference of luminance
\* over the sampling grid is below the threshold.
are_images_very_similar(image_path1, image_path2, files) ==
    IF \/ ~(\E f \in files : f.path = image_path1)
       \/ ~(\E f \in files : f.path = image_path2)
    THEN FALSE
    ELSE LET temp_image1 == ImageAt(files, image_path1)
             temp_image2 == ImageAt(files, image_path2)
             pixels1 == temp_image1.pixels
             pixels2 == temp_image2.pixels
             width == temp_image1.width
             height == temp_image1.height
             points == SamplePoints(width, height)
             Compared(k) ==
                 LET pixel_idx == (points[k][2] * width + points[k][1]) * 4
                 IN  /\ points[k][2] < height
                     /\ points[k][1] < width
                     /\ pixel_idx + 2 < Len(pixels1)
             Diff(k) ==
                 LET pixel_idx == (points[k][2] * width + points[k][1]) * 4
                     lum1 == Luminance(pixels1, pixel_idx)
                     lum2 == Luminance(pixels2, pixel_idx)
                 IN  IF lum1 >= lum2 THEN lum1 - lum2 ELSE lum2 - lum1
             total_diff == SumSeq([k \in 1..Len(points) |-> IF Compared(k) THEN Diff(k) ELSE 0])
             sample_count == Cardinality({ k \in 1..Len(points) : Compared(k) })
         IN  IF <<temp_image1.width, temp_image1.height>> # <<temp_image2.width, temp_image2.height>>
             THEN FALSE
             ELSE IF Len(pixels1) # Len(pixels2)
             THEN FALSE
             ELSE IF sample_count = 0
             THEN FALSE
             \* avg_diff < similarity_threshold, with avg_diff = total_diff / sample_count
             ELSE total_diff < 3000 * sample_count

\* should_skip_duplicate_frame(current_image_path, previous_image_path)
\* -> (should_skip, current_image_path)
should_skip_duplicate_frame(current_image_path, previous_image_path, files) ==
    IF previous_image_path = NoPath
    THEN <<FALSE, current_image_path>>
    ELSE <<are_images_very_similar(current_image_path, previous_image_path, files),
           current_image_path>>

NoTracker == [enabled |-> FALSE, first_pass |-> "None", previous_frame_path |-> NoPath]

\* setup_duplicate_detection(scene, enabled_passes, frame_count)
setup_duplicate_detection(scn, enabled_passes) ==
    [enabled |-> scn.mcsr_skip_duplicate_frames,
     first_pass |-> IF enabled_passes # <<>> THEN enabled_passes[1] ELSE "None",
     previous_frame_path |-> NoPath]

\* The tracker left pointing at the last frame that was kept.
process_duplicate_detection_last_kept(frame_paths, duplicate_tracker, files) ==
    IF duplicate_tracker.enabled
    THEN LET r == should_skip_duplicate_frame(
                      frame_paths[duplicate_tracker.first_pass],
                      duplicate_tracker.previous_frame_path, files)
         IN  << r[1],
                IF r[1] THEN duplicate_tracker
                ELSE [duplicate_tracker EXCEPT !.previous_frame_path = r[2]] >>
    ELSE <<FALSE, duplicate_tracker>>

\* process_duplicate_detection(frame_paths, frame_offset, duplicate_tracker)
\* -> (should_skip, updated_tracker)
process_duplicate_detection(frame_paths, duplicate_tracker, files) ==
    IF duplicate_tracker.enabled
    THEN LET r == should_skip_duplicate_frame(
                      frame_paths[duplicate_tracker.first_pass],
                      duplicate_tracker.previous_frame_path, files)
         IN  <<r[1], [duplicate_tracker EXCEPT !.previous_frame_path = r[2]]>>
    ELSE <<FALSE, duplicate_tracker>>

\* The duration of the previous frame left as it was.
extend_frame_durations_forgotten(frame_durations, enabled_passes) ==
    frame_durations

\* extend_frame_durations(frame_offset, frame_durations, enabled_passes)
extend_frame_durations(frame_durations, enabled_passes) ==
    [p \in DOMAIN frame_durations |->
        IF p \in Range(enabled_passes) /\ frame_durations[p] # <<>>
        THEN [frame_durations[p] EXCEPT ![Len(frame_durations[p])] = @ + 1]
        ELSE frame_durations[p]]

\* add_frame_to_passes: the frame appended to all_pass_frames of every pass
AddToPassFrames(frame_paths, all_pass_frames, enabled_passes) ==
    [p \in DOMAIN all_pass_frames |->
        IF p \in Range(enabled_passes)
        THEN Append(all_pass_frames[p], frame_paths[p])
        ELSE all_pass_frames[p]]

\* add_frame_to_passes: a duration of 1 appended for every pass
AddToDurations(frame_durations, enabled_passes) ==
    [p \in DOMAIN frame_durations |->
        IF p \in Range(enabled_passes)
        THEN Append(frame_durations[p], 1)
        ELSE frame_durations[p]]

-----------------------------------------------------------------------------
(* utils.py: the passes and the compositor nodes *)

\* get_enabled_passes(scene)
get_enabled_passes(scn) ==
    (IF scn.mcsr_render_lit THEN <<"lit">> ELSE <<>>)
    \o (IF scn.mcsr_render_diffuse THEN <<"diffuse">> ELSE <<>>)
    \o (IF scn.mcsr_render_specular THEN <<"specular">> ELSE <<>>)
    \o (IF scn.mcsr_render_normal THEN <<"normal">> ELSE <<>>)

\* A node is its name and its type.  A name is kept as its prefix, the rest
\* and the number a node tree appends to keep its names unique (0: none, k:
\* ".00k"): name.startswith("MCSR_") reads the prefix.
McsrNode(rest) == <<"MCSR_", rest, 0>>
IsMcsrNode(name) == name[1] = "MCSR_"
Node(name, type) == [name |-> name, type |-> type]

\* node.name = name: the name itself when no node of the tree has it, else the
\* name with the first number not in use
UniqueName(nodes, name) ==
    LET names == { n.name : n \in nodes }
        Numbered(c) == <<name[1], name[2], c>>
    IN  IF name \notin names THEN name
        ELSE Numbered(CHOOSE c \in 1..(Cardinality(nodes) + 1) :
                         /\ Numbered(c) \notin names
                         /\ \A b \in 1..(c - 1) : Numbered(b) \in names)

\* nodes.new(type) followed by the assignment of the name
NodesNew(nodes, type, name) == nodes \cup { Node(UniqueName(nodes, name), type) }

RECURSIVE NodesNewAll(_, _)
NodesNewAll(nodes, news) ==
    IF news = <<>> THEN nodes
    ELSE NodesNewAll(NodesNew(nodes, Head(news)[1], Head(news)[2]), Tail(news))

\* create_normal_transform_nodes: the nodes it creates, in order (the Math
\* nodes named after their operation and place are kept as one)
NormalTransformNodes ==
    << <<"CompositorNodeSeparateXYZ", McsrNode("SepWorldNormal")>> >>
    \o [r \in 1..9 |-> <<"CompositorNodeValue",
                         McsrNode(<<"R00", "R01", "R02", "R10", "R11", "R12", "R20", "R21", "R22">>[r])>>]
    \o << <<"CompositorNodeMath", McsrNode("Math")>>,
          <<"CompositorNodeMath", McsrNode("NegZ")>>,
          <<"CompositorNodeCombineXYZ", McsrNode("CombineCamNorm")>>,
          <<"CompositorNodeSetAlpha", McsrNode("SetAlphaNorm")>> >>

OutputNode(pass_name) ==
    CASE pass_name = "lit" -> McsrNode("Output_lit")
      [] pass_name = "diffuse" -> McsrNode("Output_diffuse")
      [] pass_name = "specular" -> McsrNode("Output_specular")
      [] pass_name = "normal" -> McsrNode("Output_normal")

SetAlphaNode(pass_name) ==
    CASE pass_name = "diffuse" -> McsrNode("SetAlpha_diffuse")
      [] pass_name = "specular" -> McsrNode("SetAlpha_specular")

\* Only the file output nodes are taken away.
cleanup_compositor_nodes_outputs_only(nodes) ==
    { n \in nodes : ~(IsMcsrNode(n.name) /\ n.type = "CompositorNodeOutputFile") }

\* cleanup_compositor_nodes(scene): the nodes left
cleanup_compositor_nodes(nodes) == { n \in nodes : ~IsMcsrNode(n.name) }

\* The loop of setup_compositor_nodes over the passes: the nodes it creates
RECURSIVE PassNodes(_)
PassNodes(passes) ==
    IF passes = <<>> THEN <<>>
    ELSE << <<"CompositorNodeOutputFile", OutputNode(Head(passes))>> >>
         \o (IF Head(passes) \in {"diffuse", "specular"}
             THEN << <<"CompositorNodeSetAlpha", SetAlphaNode(Head(passes))>> >>
             ELSE <<>>)
         \o PassNodes(Tail(passes))

\* setup_compositor_nodes(scene, temp_dir, passes): the nodes of the tree after
setup_compositor_nodes(nodes, passes) ==
    NodesNewAll(cleanup_compositor_nodes(nodes),
                << <<"CompositorNodeRLayers", McsrNode("RenderLayers")>> >>
                \o (IF "normal" \in Range(passes) THEN NormalTransformNodes ELSE <<>>)
                \o PassNodes(passes))

-----------------------------------------------------------------------------
(* operators/render_operator.py: mcsr.render *)

NoParams == [type |-> "None"]
NoObject == "None"

\* bpy.path.abspath(path): "//" is the directory of the .blend file
AbsPath(path) ==
    CASE path = "" -> ""
      [] path = "//renders/" -> "/project/renders/"
      [] OTHER -> path

Report(level, msg) == [level |-> level, msg |-> msg]
ReturnNone(error) == [exc |-> "none", value |-> NoParams, error |-> error]

\* actions_to_render of _validate_prerequisites: the actions the slots hold,
\* or [None] when the object has no slot
ActionsToRender(obj) ==
    IF Len(obj.mcsr.actions) > 0
    THEN SelectSeq(obj.mcsr.actions, LAMBDA a : a # NoAction)
    ELSE <<NoAction>>

\* The poses computed from the object's camera angles.
CameraPositionsFromAngles(obj) ==
    calculate_camera_positions(obj.location, PyList(obj.mcsr.camera_angles), obj.mcsr.reference_camera, TRUE)

\* The call of calculate_camera_positions in _validate_prerequisites: the
\* second argument is target_object.mcsr.camera_count, an int.
CameraPositionsOfPrerequisites(obj) ==
    calculate_camera_positions(obj.location, PyInt(obj.mcsr.camera_count), obj.mcsr.reference_camera, TRUE)

\* The dict _validate_prerequisites returns
RenderParams(scn, obj, output_path, actions_to_render, camera_positions, enabled_passes) ==
    [scene |-> scn.name,
     target_object |-> obj.name,
     output_path |-> output_path,
     actions_to_render |-> actions_to_render,
     camera_positions |-> camera_positions,
     enabled_passes |-> enabled_passes]

\* _validate_prerequisites(context): ReturnNone(error) is "report the error and
\* return None"; an exception that is no ValueError leaves the function.
_validate_prerequisites(scn, obj) ==
    IF scn.mcsr_active_object = NoObject
    THEN ReturnNone("Please select a target object")
    ELSE IF obj.mcsr.reference_camera = NoCamera
    THEN ReturnNone("Please select a reference camera")
    ELSE IF AbsPath(obj.mcsr.output_path) = ""
    THEN ReturnNone("Please set output path")
    ELSE IF ActionsToRender(obj) = <<>>
    THEN ReturnNone("No valid actions to render")
    ELSE LET camera_positions == CameraPositionsOfPrerequisites(obj)
         IN  IF camera_positions.exc = "ValueError"
             THEN ReturnNone("Reference camera is required")
             ELSE IF ~Returned(camera_positions)
             THEN Raise(camera_positions.exc)
             ELSE IF get_enabled_passes(scn) = <<>>
             THEN ReturnNone("No render passes enabled")
             ELSE Return(RenderParams(scn, obj, AbsPath(obj.mcsr.output_path),
                                      ActionsToRender(obj),
                                      camera_positions.value,
                                      get_enabled_passes(scn)))

\* The locals of the loops, outside them
NoLoc ==
    [action_idx |-> 0, camera_idx |-> 0, frame_offset |-> 0,
     start_frame |-> 0, frame_count |-> 0,
     action_folder |-> <<>>, camera_folder |-> <<>>,
     all_pass_frames |-> <<>>, frame_durations |-> <<>>,
     duplicate_tracker |-> NoTracker, temp_dir |-> {}]

NoContext == [type |-> "None"]

\* A fresh instance of the operator
NewOperator ==
    [has_render_context |-> FALSE, render_context |-> NoContext,
     frame_durations |-> <<>>, reports |-> <<>>, result |-> "RUNNING"]

\* except Exception as e: self.report({"ERROR"}, f"Render failed: {str(e)}");
\* return {"CANCELLED"}
Failed(op, exc) ==
    [op EXCEPT !.reports = Append(@, [level |-> "ERROR", msg |-> "Render failed", exc |-> exc]),
               !.result = "CANCELLED"]

\* self.report({"ERROR"}, msg); return {"CANCELLED"}
Cancelled(op, msg) ==
    [op EXCEPT !.reports = Append(@, Report("ERROR", msg)),
               !.result = "CANCELLED"]

\* execute_mcsr, lines 143-146: the prerequisites
ValidatePrerequisites ==
    /\ pc = "validate_prerequisites"
    /\ LET r == _validate_prerequisites(scene, target)
       IN  IF ~Returned(r)
           THEN /\ self' = Failed(self, r.exc)
                /\ pc' = "finally"
                /\ UNCHANGED render_params
           ELSE IF r.value = NoParams
           THEN /\ self' = Cancelled(self, r.error)
                /\ pc' = "finally"
                /\ UNCHANGED render_params
           ELSE /\ render_params' = r.value
                /\ pc' = "validate_render_dimensions"
                /\ UNCHANGED self
    /\ UNCHANGED <<scene, target, wm, data_objects, fs, loc, pureVars, panel>>

\* execute_mcsr, lines 148-150, with _validate_render_dimensions
ValidateRenderDimensions ==
    /\ pc = "validate_render_dimensions"
    /\ LET r == validate_render_dimensions(scene.resolution_x, scene.resolution_y, scene.resolution_percentage, render_params.actions_to_render)
       IN  IF ~Returned(r)
           THEN /\ self' = Failed(self, r.exc)
                /\ pc' = "finally"
                /\ UNCHANGED render_params
           ELSE IF ~r.value[1]
           THEN /\ self' = Cancelled(self, r.value[2].error_message)
                /\ pc' = "finally"
                /\ UNCHANGED render_params
           ELSE \* render_params.update(dimension_params)
                /\ render_params' =
                      [k \in DOMAIN render_params \cup DOMAIN r.value[2] |->
                          IF k \in DOMAIN r.value[2] THEN r.value[2][k]
                          ELSE render_params[k]]
                /\ pc' = "setup_render_context"
                /\ UNCHANGED self
    /\ UNCHANGED <<scene, target, wm, data_objects, fs, loc, pureVars, panel>>

\* os.path.join of the folders and files under the output path
Join(folder, name) == Append(folder, name)

\* os.makedirs(path, exist_ok=True)
MakeDirs(files, path) == [files EXCEPT !.dirs = @ \cup {path}]

\* A file written at path, replacing what was there
WriteFile(files, file) ==
    [files EXCEPT !.files = { f \in @ : f.path # file.path } \cup {file}]

NoAnimationData == [type |-> "None"]
TempCameraName == "MCSR_Temp_Camera"

\* _setup_render_context(context, render_params), and the assignments of
\* execute_mcsr that follow it (lines 155-161)
SetupRenderContext ==
    /\ pc = "setup_render_context"
    /\ LET camera_count == Len(render_params.camera_positions)
           actions_count == Len(render_params.actions_to_render)
           passes_count == Len(render_params.enabled_passes)
           total_steps == camera_count * actions_count * render_params.total_frames * passes_count
       IN  wm' = [wm EXCEPT !.progress = "begun", !.total_steps = total_steps]
    /\ self' = [self EXCEPT
                  !.has_render_context = TRUE,
                  !.render_context =
                      [original_camera |-> scene.camera,
                       original_frame |-> scene.frame_current,
                       original_action |->
                           IF target.animation_data # NoAnimationData
                           THEN target.animation_data.action
                           ELSE "None",
                       step |-> 0],
                  !.frame_durations =
                      [p \in Range(render_params.enabled_passes) |-> <<>>]]
    /\ fs' = MakeDirs(fs, <<render_params.output_path>>)
    /\ loc' = [NoLoc EXCEPT !.action_idx = 0]
    /\ pc' = "render_single_action"
    /\ UNCHANGED <<scene, target, render_params, data_objects, pureVars, panel>>

\* _render_single_action up to its loop over the cameras
RenderSingleAction ==
    /\ pc = "render_single_action"
    /\ loc.action_idx < Len(render_params.actions_to_render)
    /\ LET action == render_params.actions_to_render[loc.action_idx + 1]
           action_name == IF action # NoAction THEN action.name ELSE "_default"
           action_folder == Join(<<render_params.output_path>>, action_name)
       IN  /\ fs' = MakeDirs(fs, action_folder)
           /\ target' = IF action # NoAction
                        THEN [target EXCEPT !.animation_data = [action |-> action.name]]
                        ELSE target
           /\ loc' = [loc EXCEPT
                        !.action_folder = action_folder,
                        !.start_frame = IF action # NoAction
                                        THEN action.frame_range[1]
                                        ELSE scene.frame_current,
                        !.frame_count = ActionFrameCount(action),
                        !.camera_idx = 0]
    /\ pc' = "render_single_camera"
    /\ UNCHANGED <<scene, render_params, self, wm, data_objects, pureVars, panel>>

\* _render_single_camera up to the frame loop of _render_all_passes
RenderSingleCamera ==
    /\ pc = "render_single_camera"
    /\ loc.camera_idx < Len(render_params.camera_positions)
    /\ LET pose == render_params.camera_positions[loc.camera_idx + 1]
           camera_folder == Join(loc.action_folder, loc.camera_idx)
           enabled_passes == render_params.enabled_passes
       IN  /\ fs' = MakeDirs(fs, camera_folder)
           /\ data_objects' = data_objects \cup {TempCameraName}
           /\ scene' = [scene EXCEPT
                          !.camera = [name |-> TempCameraName, location |-> pose[1], rotation_euler |-> pose[2]],
                          !.nodes = setup_compositor_nodes(@, enabled_passes),
                          !.use_compositing = TRUE]
           /\ loc' = [loc EXCEPT
                        !.camera_folder = camera_folder,
                        !.temp_dir = {},
                        !.all_pass_frames = [p \in Range(enabled_passes) |-> <<>>],
                        !.frame_durations = [p \in Range(enabled_passes) |-> <<>>],
                        !.duplicate_tracker = setup_duplicate_detection(scene, enabled_passes),
                        !.frame_offset = 0]
    /\ pc' = "render_frame"
    /\ UNCHANGED <<target, render_params, self, wm, pureVars, panel>>

\* Luminance levels of a rendered frame
MaxLevel == 2
Levels == 0..MaxLevel

\* The progress update and report of one turn of the frame loop (lines 442-446)
FrameProgress(op) ==
    [op EXCEPT
       !.render_context.step = @ + Len(render_params.enabled_passes),
       !.reports = Append(@, [level |-> "INFO",
                              msg |-> <<loc.action_idx + 1, loc.camera_idx + 1, loc.frame_offset + 1>>])]

\* The image rendered at a luminance level, kept as one opaque grey pixel; one
\* level is two thirds of the threshold of are_images_very_similar, so equal
\* and neighbouring levels are very similar and others are not.
GreyImage(level) == Image(1, 1, <<2 * level, 2 * level, 2 * level, 100000>>)

\* The files bpy.ops.render.render(write_still=True) writes: one per pass
RenderedFiles(current_frame, enabled_passes, level) ==
    { [path |-> FramePath(p, current_frame), image |-> GreyImage(level)] : p \in Range(enabled_passes) }

\* One turn of the frame loop of _render_all_passes (lines 438-475)
RenderFrame ==
    /\ pc = "render_frame"
    /\ loc.frame_offset < loc.frame_count
    /\ \E level \in Levels :
         LET enabled_passes == render_params.enabled_passes
             current_frame == loc.start_frame + loc.frame_offset
             files == loc.temp_dir \cup RenderedFiles(current_frame, enabled_passes, level)
             frame_paths == collect_frame_paths(current_frame, enabled_passes)
             r == process_duplicate_detection(frame_paths, loc.duplicate_tracker, files)
         IN  /\ scene' = [scene EXCEPT !.frame_current = current_frame]
             /\ wm' = [wm EXCEPT !.updates = self.render_context.step]
             /\ self' = FrameProgress(self)
             /\ loc' = [loc EXCEPT
                          !.temp_dir = files,
                          !.duplicate_tracker = r[2],
                          !.all_pass_frames =
                              IF r[1] THEN @
                              ELSE AddToPassFrames(frame_paths, @, enabled_passes),
                          !.frame_durations =
                              IF r[1] THEN extend_frame_durations(@, enabled_passes)
                              ELSE AddToDurations(@, enabled_passes),
                          !.frame_offset = @ + 1]
    /\ UNCHANGED <<target, render_params, data_objects, fs, pc, pureVars, panel>>

\* bpy.ops.render.render raises in a turn of the frame loop: the temporary
\* directory goes, the finally of _render_single_camera removes the camera and
\* the except of execute_mcsr reports.
RenderFrameRaises ==
    /\ pc = "render_frame"
    /\ loc.frame_offset < loc.frame_count
    /\ scene' = [scene EXCEPT !.frame_current = loc.start_frame + loc.frame_offset]
    /\ wm' = [wm EXCEPT !.updates = self.render_context.step]
    /\ self' = Failed(FrameProgress(self), "RuntimeError")
    /\ data_objects' = data_objects \ {TempCameraName}
    /\ loc' = NoLoc
    /\ pc' = "finally"
    /\ UNCHANGED <<target, render_params, fs, pureVars, panel>>

\* create_final_pass_animations(all_pass_frames, camera_folder, enabled_passes,
\* render_params): the files it leaves
RECURSIVE create_final_pass_animations(_, _, _, _)
create_final_pass_animations(files, all_pass_frames, camera_folder, enabled_passes) ==
    IF enabled_passes = <<>>
    THEN files
    ELSE LET pass_name == Head(enabled_passes)
             frames == all_pass_frames[pass_name]
             final_path == Join(camera_folder, pass_name)
             written ==
                 IF Len(frames) > 1
                 THEN WriteFile(files, [path |-> final_path, kind |-> "animation", frames |-> frames])
                 ELSE IF Len(frames) = 1
                 THEN WriteFile(files, [path |-> final_path, kind |-> "copy", frames |-> frames])
                 ELSE files
         IN  create_final_pass_animations(written, all_pass_frames, camera_folder, Tail(enabled_passes))

\* The end of _render_all_passes (lines 477-482), the finally of
\* _render_single_camera and the step of the enclosing loops
FinishCamera ==
    /\ pc = "render_frame"
    /\ loc.frame_offset = loc.frame_count
    /\ self' = [self EXCEPT !.frame_durations =
                  [p \in DOMAIN @ |-> Append(@[p], loc.frame_durations[p])]]
    /\ fs' = create_final_pass_animations(fs, loc.all_pass_frames, loc.camera_folder, render_params.enabled_passes)
    /\ data_objects' = data_objects \ {TempCameraName}
    /\ IF loc.camera_idx + 1 < Len(render_params.camera_positions)
       THEN /\ loc' = [NoLoc EXCEPT !.action_idx = loc.action_idx,
                                    !.camera_idx = loc.camera_idx + 1,
                                    !.action_folder = loc.action_folder,
                                    !.start_frame = loc.start_frame,
                                    !.frame_count = loc.frame_count]
            /\ pc' = "render_single_camera"
       ELSE IF loc.action_idx + 1 < Len(render_params.actions_to_render)
       THEN /\ loc' = [NoLoc EXCEPT !.action_idx = loc.action_idx + 1]
            /\ pc' = "render_single_action"
       ELSE /\ loc' = NoLoc
            /\ pc' = "generate_metadata"
    /\ UNCHANGED <<scene, target, render_params, wm, pureVars, panel>>

\* The call of generate_metadata_dict bound to its parameters: six of the
\* seven have no default, frame_durations defaults to None.
CallGenerateMetadataDict(args) ==
    IF Len(args) < 6
    THEN Raise("TypeError")
    ELSE generate_metadata_dict(args[1], args[2], args[3], args[4], args[5], args[6],
                                IF Len(args) >= 7 THEN args[7] ELSE NoDurations)

\* self._frame_durations as the dict it is
RecordedDurations == DurationsDict(render_params.enabled_passes, self.frame_durations)

\* The arguments execute_mcsr passes (lines 167-173)
MetadataArguments ==
    << render_params.actions_to_render, scene.fps,
       render_params.actual_render_x, render_params.actual_render_y,
       IF scene.mcsr_skip_duplicate_frames THEN RecordedDurations ELSE NoDurations >>

\* execute_mcsr, lines 166-180: the metadata file and the result
GenerateMetadata ==
    /\ pc = "generate_metadata"
    /\ LET metadata_dict == CallGenerateMetadataDict(MetadataArguments)
       IN  IF ~Returned(metadata_dict)
           THEN /\ self' = Failed(self, metadata_dict.exc)
                /\ UNCHANGED fs
           ELSE /\ fs' = WriteFile(fs, [path |-> Join(<<render_params.output_path>>, "metadata.json"),
                                        kind |-> "metadata", content |-> metadata_dict.value])
                /\ self' = [self EXCEPT
                              !.reports = Append(@, Report("INFO", "Multi-camera animation render complete!")),
                              !.result = "FINISHED"]
    /\ pc' = "finally"
    /\ UNCHANGED <<scene, target, render_params, wm, data_objects, loc, pureVars, panel>>

\* The cleanup without scene.frame_set(original_frame).
CleanedSceneFrameKept(scn, render_context) ==
    [scn EXCEPT
       !.camera = render_context.original_camera,
       !.nodes = IF scn.mcsr_debug_preserve_compositor THEN @
                 ELSE cleanup_compositor_nodes(@)]

\* _cleanup_render_context(context, render_context): the scene after
CleanedScene(scn, render_context) ==
    [scn EXCEPT
       !.camera = render_context.original_camera,
       !.frame_current = render_context.original_frame,
       !.nodes = IF scn.mcsr_debug_preserve_compositor THEN @
                 ELSE cleanup_compositor_nodes(@)]

\* execute_mcsr, lines 185-188: the finally, with _cleanup_render_context
Finally ==
    /\ pc = "finally"
    /\ IF self.has_render_context
       THEN /\ scene' = CleanedScene(scene, self.render_context)
            /\ target' = IF /\ scene.mcsr_active_object # NoObject
                            /\ target.animation_data # NoAnimationData
                         THEN [target EXCEPT !.animation_data.action = self.render_context.original_action]
                         ELSE target
            /\ wm' = [wm EXCEPT !.progress = "ended"]
       ELSE UNCHANGED <<scene, target, wm>>
    /\ pc' = "done"
    /\ UNCHANGED <<render_params, self, data_objects, fs, loc, pureVars, panel>>

-----------------------------------------------------------------------------
(* The scenes mcsr.render is run in *)

MaxRenderFrames == 3
MaxRenderCameras == 2

TargetLocation == <<0, 0, 0>>
RenderReferenceCamera ==
    [name |-> "Camera", location |-> <<0, -10, 5>>,
     rotation_euler |-> << <<5, 0, 0>>, <<0, 5, 0>>, <<0, 0, 5>> >>]

UserNodes == { Node(<<"", "Composite", 0>>, "CompositorNodeComposite") }

\* The four pass switches of the scene: lit, diffuse, specular, normal
PassSwitches ==
    { <<TRUE, FALSE, FALSE, FALSE>>, <<TRUE, FALSE, FALSE, TRUE>>,
      <<FALSE, TRUE, TRUE, FALSE>> }
NoPassSwitches == <<FALSE, FALSE, FALSE, FALSE>>

\* The scene before the operator runs
Scene(active, switches, skip, preserve, res) ==
    [name |-> "Scene",
     mcsr_active_object |-> active,
     mcsr_render_lit |-> switches[1],
     mcsr_render_diffuse |-> switches[2],
     mcsr_render_specular |-> switches[3],
     mcsr_render_normal |-> switches[4],
     mcsr_skip_duplicate_frames |-> skip,
     mcsr_debug_preserve_compositor |-> preserve,
     resolution_x |-> res[1],
     resolution_y |-> res[2],
     resolution_percentage |-> res[3],
     fps |-> 24,
     camera |-> [name |-> "Camera"],
     frame_current |-> 5,
     nodes |-> UserNodes,
     use_compositing |-> FALSE]

\* The target object and its MCSR settings; camera_angles holds one angle per
\* camera, as update_camera_angles leaves it.
Target(reference_camera, output_path, slots, camera_count, animation_data) ==
    [name |-> "Cube",
     location |-> TargetLocation,
     animation_data |-> animation_data,
     mcsr |-> [reference_camera |-> reference_camera,
               output_path |-> output_path,
               actions |-> slots,
               camera_count |-> camera_count,
               camera_angles |-> AngleList(camera_count, 0, 1)]]

NoCall == [fn |-> "none"]
PureIdle == call = NoCall /\ ret = Pending

\* The panel's operators not run
NoPanel == [state |-> "off"]
PanelIdle == panel = NoPanel

OperatorStart ==
    /\ self = NewOperator
    /\ wm = [progress |-> "idle", total_steps |-> 0, updates |-> 0]
    /\ data_objects = {"Cube", "Camera"}
    /\ fs = [dirs |-> {}, files |-> {}]
    /\ loc = NoLoc

OperatorIdle ==
    /\ scene = Scene(NoObject, NoPassSwitches, FALSE, FALSE, <<64, 64, 100>>)
    /\ target = Target(NoCamera, "", <<>>, MinCameraCount, NoAnimationData)
    /\ render_params = NoParams
    /\ OperatorStart
    /\ pc = "off"

-----------------------------------------------------------------------------
(* Spec: mcsr.render from its start *)

PrerequisiteSlots ==
    { <<>>, <<NoAction>>, <<Action("Walk", 1, 3)>>,
      <<NoAction, Action("Walk", 1, 3)>>, <<Action("Idle", 2, 2), Action("Walk", 1, 3)>> }

Init ==
    /\ \E active \in {NoObject, "Cube"}, switches \in PassSwitches \cup {NoPassSwitches}, skip \in BOOLEAN :
         scene = Scene(active, switches, skip, FALSE, <<64, 64, 100>>)
    /\ \E reference_camera \in {NoCamera, RenderReferenceCamera}, output_path \in {"", "//renders/"}, slots \in PrerequisiteSlots, camera_count \in {MinCameraCount, 4, MaxCameraCount} :
         target = Target(reference_camera, output_path, slots, camera_count, NoAnimationData)
    /\ render_params = NoParams
    /\ OperatorStart
    /\ pc = "validate_prerequisites"
    /\ PureIdle
    /\ PanelIdle

Next ==
    \/ ValidatePrerequisites
    \/ Finally

Spec == Init /\ [][Next]_vars

-----------------------------------------------------------------------------
(* SpecRender: the operator from _validate_render_dimensions on, entered with
   the parameters lines 240-247 build and one pose per camera angle *)

RenderSlots ==
    { <<>>, <<Action("Run", 0, 1)>>,
      <<Action("Idle", 2, 2), NoAction, Action("Walk", 1, MaxRenderFrames)>>,
      <<Action("Walk", 1, 2), Action("Idle", 2, 2)>> }

\* resolution_x, resolution_y, resolution_percentage: within the limit for every
\* grid, too wide for two columns, too high for two rows, too high for one
RenderResolutions ==
    { <<16385, 16384, 50>>, <<8193, 100, 100>>, <<100, 8193, 100>>, <<100, 16385, 100>> }

\* mcsr_skip_duplicate_frames, mcsr_debug_preserve_compositor and the
\* animation data of the target: every pair of the last two without the
\* duplicate detection, one of them with it
RenderSettings ==
    { <<FALSE, preserve, animation_data>> :
        preserve \in BOOLEAN, animation_data \in {NoAnimationData, [action |-> "Rest"]} }
    \cup { <<TRUE, FALSE, [action |-> "Rest"]>> }

InitRender ==
    /\ \E switches \in PassSwitches, res \in RenderResolutions, settings \in RenderSettings,
          slots \in RenderSlots, camera_count \in MinCameraCount..MaxRenderCameras :
         /\ scene = Scene("Cube", switches, settings[1], settings[2], res)
         /\ target = Target(RenderReferenceCamera, "//renders/", slots, camera_count, settings[3])
    /\ render_params = RenderParams(scene, target, AbsPath(target.mcsr.output_path), ActionsToRender(target), CameraPositionsFromAngles(target).value, get_enabled_passes(scene))
    /\ OperatorStart
    /\ pc = "validate_render_dimensions"
    /\ PureIdle
    /\ PanelIdle

NextRender ==
    \/ ValidateRenderDimensions
    \/ SetupRenderContext
    \/ RenderSingleAction
    \/ RenderSingleCamera
    \/ RenderFrame
    \/ RenderFrameRaises
    \/ FinishCamera
    \/ GenerateMetadata
    \/ Finally

SpecRender == InitRender /\ [][NextRender]_vars

-----------------------------------------------------------------------------
(* render_utils.py: the animation grid of one pass *)

\* The frame placed by columns first: grid_x and grid_y exchanged.
AnimationOffsetsTransposed(i, frame_width, frame_height, grid_cols) ==
    [x |-> (i \div grid_cols) * frame_width, y |-> (i % grid_cols) * frame_height]

\* x_offset and y_offset of frame i (from 0)
AnimationOffsets(i, frame_width, frame_height, grid_cols) ==
    [x |-> (i % grid_cols) * frame_width, y |-> (i \div grid_cols) * frame_height]

\* The copy loop of create_animation_from_frames over one frame
CopyFrame(animation_pixels, frame_pixels, i, frame_width, frame_height, grid_cols, total_width, total_height) ==
    LET offset == AnimationOffsets(i, frame_width, frame_height, grid_cols)
        Copies(q) ==
            { xy \in (0..(frame_width - 1)) \X (0..(frame_height - 1)) :
                LET src_idx == (xy[2] * frame_width + xy[1]) * 4
                    dst_x == offset.x + xy[1]
                    dst_y == offset.y + xy[2]
                    dst_idx == (dst_y * total_width + dst_x) * 4
                IN  /\ dst_idx = q
                    /\ src_idx + 3 < Len(frame_pixels)
                    /\ dst_idx + 3 < Len(animation_pixels)
                    /\ dst_x < total_width
                    /\ dst_y < total_height }
        Last(S) ==
            CHOOSE xy \in S : \A o \in S :
                o[2] < xy[2] \/ (o[2] = xy[2] /\ o[1] <= xy[1])
    IN  [d \in 1..Len(animation_pixels) |->
            LET q == ((d - 1) \div 4) * 4
                j == (d - 1) % 4
            IN  IF Copies(q) = {} THEN animation_pixels[d]
                ELSE LET xy == Last(Copies(q))
                     IN  frame_pixels[(xy[2] * frame_width + xy[1]) * 4 + j + 1]]

\* for i, frame_path in enumerate(frame_paths): if i >= grid_cols * grid_rows: break
RECURSIVE CompositeFrames(_, _, _, _, _, _, _)
CompositeFrames(animation_pixels, i, frames, frame_width, frame_height, grid_cols, grid_rows) ==
    IF i >= Len(frames) \/ i >= grid_cols * grid_rows
    THEN animation_pixels
    ELSE CompositeFrames(
            CopyFrame(animation_pixels, frames[i + 1].pixels, i, frame_width, frame_height,
                      grid_cols, frame_width * grid_cols, frame_height * grid_rows),
            i + 1, frames, frame_width, frame_height, grid_cols, grid_rows)

\* create_animation_from_frames(frame_paths, output_path, frame_width,
\* frame_height, grid_cols, grid_rows): the image saved; frames holds the
\* images at frame_paths.
create_animation_from_frames(frames, frame_width, frame_height, grid_cols, grid_rows) ==
    LET total_width == frame_width * grid_cols
        total_height == frame_height * grid_rows
        transparent == [d \in 1..(total_width * total_height * 4) |-> 0]
    IN  Image(total_width, total_height,
              CompositeFrames(transparent, 0, frames, frame_width, frame_height, grid_cols, grid_rows))

NoFile == [type |-> "None"]

\* One turn of the loop of create_final_pass_animations: the file written at
\* final_path for the kept frames of a pass, NoFile when none is written
FinalPassImage(frames, actual_render_x, actual_render_y, grid_cols, grid_rows) ==
    IF Len(frames) > 1
    THEN create_animation_from_frames(frames, actual_render_x, actual_render_y, grid_cols, grid_rows)
    ELSE IF Len(frames) = 1
    THEN frames[1]
    ELSE NoFile

MaxGridRows == 2

\* The kept frames of one pass: images of the render size
AnimationCalls ==
    { [fn |-> "create_final_pass_animations",
       frames |-> [i \in 1..n |-> RenderedImage(i - 1, w, h)],
       actual_render_x |-> w, actual_render_y |-> h,
       grid_cols |-> gc, grid_rows |-> gr] :
        n \in 0..MaxSprites, w \in 1..MaxSpriteSize, h \in 1..MaxSpriteSize,
        gc \in 1..MaxGridCols, gr \in 1..MaxGridRows }

-----------------------------------------------------------------------------
(* SpecPure: each function applied once to arguments drawn from its inputs *)

\* The image of a rendered frame: opaque, every pixel with its own colour
FrameImage(width, height) ==
    Image(width, height,
          [d \in 1..(width * height * 4) |->
              IF (d - 1) % 4 = 3 THEN 100000 ELSE 1000 * (((d - 1) % 4) + 1) + 10 * ((d - 1) \div 4)])

\* The image with one channel of one pixel (both from 0) raised by delta
Edited(image, pixel, channel, delta) ==
    [image EXCEPT !.pixels[pixel * 4 + channel + 1] = @ + delta]

\* Sizes below and at the size where the sampling step becomes two
SimilaritySizes == { <<1, 1>>, <<2, 1>>, <<16, 1>>, <<1, 16>> }

\* A frame and the frames that differ from it in one channel of its first or
\* second pixel, by a third of the threshold or by a hundred times that
SimilarityImages(size) ==
    LET image == FrameImage(size[1], size[2])
    IN  { image }
        \cup { Edited(image, pixel, channel, delta) :
                 pixel \in { q \in {0, 1} : q < size[1] * size[2] },
                 channel \in {0, 1, 3}, delta \in {10, 1000} }

File(path, image) == [path |-> path, image |-> image]

SimilarityCalls ==
    \* both files exist
    { [fn |-> "are_images_very_similar", image_path1 |-> "a.png", image_path2 |-> "b.png",
       files |-> { File("a.png", i1), File("b.png", i2) }] :
        i1 \in UNION { SimilarityImages(s) : s \in SimilaritySizes },
        i2 \in UNION { SimilarityImages(s) : s \in SimilaritySizes } }
    \* one file given twice
    \cup { [fn |-> "are_images_very_similar", image_path1 |-> "a.png", image_path2 |-> "a.png",
            files |-> { File("a.png", i1) }] :
             i1 \in UNION { SimilarityImages(s) : s \in SimilaritySizes } }
    \* a file is missing
    \cup { [fn |-> "are_images_very_similar", image_path1 |-> "a.png", image_path2 |-> "b.png",
            files |-> F] :
             F \in { {}, { File("a.png", FrameImage(1, 1)) }, { File("b.png", FrameImage(1, 1)) } } }

PureCalls == CameraCalls \cup DimensionCalls \cup MetadataCalls \cup SheetCalls \cup AnimationCalls
             \cup SimilarityCalls

InitPure ==
    /\ call \in PureCalls
    /\ ret = Pending
    /\ OperatorIdle
    /\ PanelIdle

ApplyCalculateCameraPositions ==
    /\ call.fn = "calculate_camera_positions"
    /\ ret = Pending
    /\ ret' = calculate_camera_positions(call.center, call.camera_angles,
                                         call.reference_camera,
                                         call.include_reference)
    /\ UNCHANGED <<call, opVars, panel>>

ApplyValidateRenderDimensions ==
    /\ call.fn = "validate_render_dimensions"
    /\ ret = Pending
    /\ ret' = validate_render_dimensions(call.scene_render_x, call.scene_render_y,
                                         call.resolution_percentage,
                                         call.actions_to_render)
    /\ UNCHANGED <<call, opVars, panel>>

ApplyGenerateMetadataDict ==
    /\ call.fn = "generate_metadata_dict"
    /\ ret = Pending
    /\ ret' = generate_metadata_dict(call.actions_to_render, call.fps,
                                     call.frame_width, call.frame_height,
                                     call.grid_cols, call.enabled_passes,
                                     call.frame_durations)
    /\ UNCHANGED <<call, opVars, panel>>

ApplyCreateSpriteSheet ==
    /\ call.fn = "create_sprite_sheet_from_temp_files"
    /\ ret = Pending
    /\ ret' = create_sprite_sheet_from_temp_files(call.temp_files,
                                                  call.first_match,
                                                  call.camera_count, call.spacing)
    /\ UNCHANGED <<call, opVars, panel>>

ApplyCreateFinalPassAnimation ==
    /\ call.fn = "create_final_pass_animations"
    /\ ret = Pending
    /\ ret' = Return(FinalPassImage(call.frames, call.actual_render_x, call.actual_render_y, call.grid_cols, call.grid_rows))
    /\ UNCHANGED <<call, opVars, panel>>

ApplyAreImagesVerySimilar ==
    /\ call.fn = "are_images_very_similar"
    /\ ret = Pending
    /\ ret' = Return(are_images_very_similar(call.image_path1, call.image_path2, call.files))
    /\ UNCHANGED <<call, opVars, panel>>

NextPure ==
    \/ ApplyCalculateCameraPositions
    \/ ApplyValidateRenderDimensions
    \/ ApplyGenerateMetadataDict
    \/ ApplyCreateSpriteSheet
    \/ ApplyCreateFinalPassAnimation
    \/ ApplyAreImagesVerySimilar

SpecPure == InitPure /\ [][NextPure]_vars

-----------------------------------------------------------------------------
(* Claims on the camera ring (SpecPure) *)

RingCallDone ==
    /\ call.fn = "calculate_camera_positions"
    /\ call.camera_angles.type = "list"
    /\ call.reference_camera # NoCamera
    /\ Returned(ret)

\* C1 as stated: calculate_camera_positions returns exactly one pose per
\* camera angle, for every list of N = 0..24 angles and both values of
\* include_reference.
C1_OnePosePerAngle ==
    RingCallDone => Len(ret.value) = Len(call.camera_angles.val)

\* C1 as amended: the list returned has N poses for every N >= 1; for N = 0 it
\* is empty with include_reference = False and holds the reference pose alone
\* with include_reference = True.
C1_PoseCount ==
    RingCallDone =>
        LET n == Len(call.camera_angles.val)
        IN  /\ n >= 1 => Len(ret.value) = n
            /\ n = 0 /\ ~call.include_reference => ret.value = <<>>
            /\ n = 0 /\ call.include_reference =>
                  ret.value = << <<call.reference_camera.location,
                                   call.reference_camera.rotation_euler>> >>

C1_Witness ==
    /\ RingCallDone
    /\ call.include_reference
    /\ Len(call.camera_angles.val) = MaxCameraCount
    /\ Len(ret.value) = MaxCameraCount

HorizontalDistSq(a, b) ==
    (a[1] - b[1]) * (a[1] - b[1]) + (a[2] - b[2]) * (a[2] - b[2])

\* C2: every pose lies on the ring of the reference camera.  With
\* include_reference pose 0 is the reference camera's own location and
\* rotation; every other pose i is the reference location turned about the
\* vertical axis through the center by angle i, its rotation the reference
\* rotation turned by the same angle; so it keeps the reference camera's height
\* offset and horizontal distance from the center, and an angle of 0
\* reproduces the reference location and rotation.
C2_PosesOnRing ==
    RingCallDone =>
        \A i \in 1..Len(ret.value) :
            LET ref == call.reference_camera
                ctr == call.center
                pose == ret.value[i]
                angle == call.camera_angles.val[i].angle
            IN  IF call.include_reference /\ i = 1
                THEN pose = <<ref.location, ref.rotation_euler>>
                ELSE /\ VecSub(pose[1], ctr) =
                            RotationZ(angle, VecSub(ref.location, ctr))
                     /\ \A k \in 1..3 :
                            pose[2][k] = RotationZ(angle, ref.rotation_euler[k])
                     /\ pose[1][3] - ctr[3] = ref.location[3] - ctr[3]
                     /\ HorizontalDistSq(pose[1], ctr) =
                            HorizontalDistSq(ref.location, ctr)
                     /\ angle = ZeroAngle =>
                            pose = <<ref.location, ref.rotation_euler>>

C2_Witness ==
    /\ RingCallDone
    /\ call.include_reference
    /\ \E i \in 2..Len(ret.value) :
          /\ call.camera_angles.val[i].angle = ZeroAngle
          /\ ret.value[i][1] = call.reference_camera.location
    /\ \E j \in 2..Len(ret.value) :
          /\ call.camera_angles.val[j].angle.c = -4
          /\ ret.value[j][1] # call.reference_camera.location

-----------------------------------------------------------------------------
(* Claims on the grid layout, the metadata and the sprite sheet (SpecPure) *)

DimensionCallDone ==
    /\ call.fn = "validate_render_dimensions"
    /\ Returned(ret)

\* C5: the grid computed by validate_render_dimensions is as square as
\* possible and large enough.  For every total_frames >= 1, grid_cols is the
\* ceiling of the square root of total_frames and grid_rows the ceiling of
\* total_frames / grid_cols, and they satisfy grid_cols * grid_rows >=
\* total_frames, grid_rows <= grid_cols <= grid_rows + 1 and
\* (grid_rows - 1) * grid_cols < total_frames: no row is completely empty.
C5_GridSquareAndLargeEnough ==
    DimensionCallDone =>
        LET p == ret.value[2]
            n == p.total_frames
            c == p.grid_cols
            r == p.grid_rows
        IN  /\ n >= 1
            /\ \A i \in 1..Len(call.actions_to_render) :
                  ActionFrameCount(call.actions_to_render[i]) <= n
            /\ (c - 1) * (c - 1) < n /\ n <= c * c
            /\ (r - 1) * c < n /\ n <= r * c
            /\ r <= c /\ c <= r + 1

C5_Witness ==
    /\ DimensionCallDone
    /\ ret.value[2].total_frames > 10
    /\ ret.value[2].grid_rows = ret.value[2].grid_cols - 1
    /\ ret.value[2].grid_rows * ret.value[2].grid_cols > ret.value[2].total_frames

\* The pixel of an image at the top-down coordinate (x, y), channel j
TopDown(img, x, y, j) ==
    img.pixels[((img.height - 1 - y) * img.width + x) * 4 + j + 1]

SheetCallDone ==
    /\ call.fn = "create_sprite_sheet_from_temp_files"
    /\ Returned(ret)

\* C8: create_sprite_sheet_from_temp_files composites n equally sized w x h
\* images with spacing s into a sheet of cols = ceil(sqrt(n)) by rows =
\* ceil(n / cols) cells, cols*w + (cols-1)*s wide and rows*h + (rows-1)*s
\* high.  The pixel at the top-down coordinate (x, y) of the i-th file lands at
\* the top-down coordinate ((i mod cols)*(w+s) + x, (i div cols)*(h+s) + y) of
\* the sheet, no two sprites overlap, and every pixel of the spacing and of an
\* unused cell stays fully transparent.
C8_SpriteSheetLayout ==
    SheetCallDone =>
        LET n == call.camera_count
            files == call.temp_files
            placed == IF Len(files) < n THEN Len(files) ELSE n
            w == files[1].width
            h == files[1].height
            s == call.spacing
            cols == CHOOSE c \in 1..n : (c - 1) * (c - 1) < n /\ n <= c * c
            rows == CHOOSE r \in 1..n : (r - 1) * cols < n /\ n <= r * cols
            sheet == ret.value
            Owners(X, Y) ==
                { o \in (0..(placed - 1)) \X (0..(w - 1)) \X (0..(h - 1)) :
                    /\ (o[1] % cols) * (w + s) + o[2] = X
                    /\ (o[1] \div cols) * (h + s) + o[3] = Y }
        IN  /\ sheet.width = cols * w + (cols - 1) * s
            /\ sheet.height = rows * h + (rows - 1) * s
            /\ Len(sheet.pixels) = sheet.width * sheet.height * 4
            /\ \A i \in 0..(placed - 1), x \in 0..(w - 1), y \in 0..(h - 1) :
                  /\ (i % cols) * (w + s) + x < sheet.width
                  /\ (i \div cols) * (h + s) + y < sheet.height
            /\ \A X \in 0..(sheet.width - 1), Y \in 0..(sheet.height - 1) :
                  /\ Cardinality(Owners(X, Y)) <= 1
                  /\ \A j \in 0..3 :
                        IF Owners(X, Y) = {}
                        THEN TopDown(sheet, X, Y, j) = 0
                        ELSE \A o \in Owners(X, Y) :
                                TopDown(sheet, X, Y, j) =
                                    TopDown(files[o[1] + 1], o[2], o[3], j)

C8_Witness ==
    /\ SheetCallDone
    /\ call.camera_count = 5 /\ Len(call.temp_files) = 5
    /\ call.spacing = 2
    /\ call.temp_files[1].width = 2 /\ call.temp_files[1].height = 2
    /\ ret.value.width = 10 /\ ret.value.height = 6
    \* the top-left pixel of the fifth file, in the second row of cells
    /\ TopDown(ret.value, 4, 4, 0) = TopDown(call.temp_files[5], 0, 0, 0)
    \* a pixel of the spacing and one of the unused sixth cell
    /\ TopDown(ret.value, 2, 0, 3) = 0
    /\ TopDown(ret.value, 9, 5, 0) = 0

MetadataCallDone ==
    /\ call.fn = "generate_metadata_dict"
    /\ Returned(ret)

\* C9: without duration data generate_metadata_dict emits for each action with
\* frame range [a, b] exactly b - a + 1 sprites, each with frames = 1, sprite
\* i at x = (i mod grid_cols) * frame_width and y = (i div grid_cols) *
\* frame_height; a None action is emitted as the action "_default" with exactly
\* one sprite at (0, 0); the actions appear in the order given.
C9_MetadataWithoutDurations ==
    MetadataCallDone /\ ~HasDurationData(call.frame_durations) =>
        LET given == call.actions_to_render
            out == ret.value.actions
        IN  /\ Len(out) = Len(given)
            /\ \A i \in 1..Len(given) :
                  IF given[i] = NoAction
                  THEN /\ out[i].name = "_default"
                       /\ out[i].sprites = << [x |-> 0, y |-> 0, frames |-> 1] >>
                  ELSE /\ out[i].name = given[i].name
                       /\ Len(out[i].sprites) =
                            given[i].frame_range[2] - given[i].frame_range[1] + 1
                       /\ \A k \in 1..Len(out[i].sprites) :
                            /\ out[i].sprites[k].frames = 1
                            /\ out[i].sprites[k].x =
                                 ((k - 1) % call.grid_cols) * call.frame_width
                            /\ out[i].sprites[k].y =
                                 ((k - 1) \div call.grid_cols) * call.frame_height

C9_Witness ==
    /\ MetadataCallDone
    /\ call.frame_durations = NoDurations
    /\ call.grid_cols = 2 /\ call.frame_width = 16
    /\ Len(call.actions_to_render) = 2
    /\ call.actions_to_render[1] = NoAction
    /\ Len(ret.value.actions[1].sprites) = 1
    /\ call.actions_to_render[2] = Action("Walk", 1, 4)
    /\ ret.value.actions[2].sprites[4] = [x |-> 16, y |-> 32, frames |-> 1]

-----------------------------------------------------------------------------
(* Claims on the prerequisites of mcsr.render (Spec) *)

PrerequisitesMet ==
    /\ scene.mcsr_active_object # NoObject
    /\ target.mcsr.reference_camera # NoCamera
    /\ AbsPath(target.mcsr.output_path) # ""
    /\ \/ Len(target.mcsr.actions) = 0
       \/ \E i \in 1..Len(target.mcsr.actions) : target.mcsr.actions[i] # NoAction
    /\ get_enabled_passes(scene) # <<>>

ReferencePose(cam) == <<cam.location, cam.rotation_euler>>

\* C3: with an active object, a reference camera, an output path, a usable
\* action (or no slot) and an enabled pass, _validate_prerequisites returns
\* render parameters, neither None nor an exception, and camera_positions
\* holds camera_count poses, the reference pose first.
C3_PrerequisitesReturnParameters ==
    (PrerequisitesMet /\ pc # "validate_prerequisites")
        => /\ render_params # NoParams
           /\ self.reports = <<>>
           /\ Len(render_params.camera_positions) = target.mcsr.camera_count
           /\ render_params.camera_positions[1] = ReferencePose(target.mcsr.reference_camera)

-----------------------------------------------------------------------------
(* Claims on the texture limit (SpecRender) *)

RECURSIVE LongestAction(_)
LongestAction(actions) ==
    IF actions = <<>> THEN 0
    ELSE Max(IF Head(actions) = NoAction THEN 1
             ELSE Head(actions).frame_range[2] - Head(actions).frame_range[1] + 1,
             LongestAction(Tail(actions)))

\* The sheet of the scene's actions fits the texture limit
SheetFits ==
    LET frames == LongestAction(ActionsToRender(target))
        cols == CHOOSE c \in 1..frames : c * c >= frames /\ (c - 1) * (c - 1) < frames
        rows == CHOOSE r \in 1..frames : r * cols >= frames /\ (r - 1) * cols < frames
        x == (scene.resolution_x * scene.resolution_percentage) \div 100
        y == (scene.resolution_y * scene.resolution_percentage) \div 100
    IN  x * cols <= 16384 /\ y * rows <= 16384

DimensionsOfScene ==
    validate_render_dimensions(scene.resolution_x, scene.resolution_y, scene.resolution_percentage, ActionsToRender(target)).value

NothingCreated ==
    /\ fs.dirs = {} /\ fs.files = {}
    /\ data_objects = {"Cube", "Camera"}
    /\ scene.camera.name # TempCameraName
    /\ \A n \in scene.nodes : ~IsMcsrNode(n.name)

\* C4: validate_render_dimensions reports is_valid exactly when the scaled and
\* truncated resolution times the grid of the longest action is within 16384
\* in both directions; error_message is non-empty exactly when is_valid is
\* false, and then mcsr.render reports it and returns CANCELLED with no
\* directory, camera or compositor node created.
C4_TextureLimit ==
    /\ DimensionsOfScene[1] = SheetFits
    /\ (DimensionsOfScene[2].error_message # "") = ~DimensionsOfScene[1]
    /\ ~SheetFits =>
          /\ NothingCreated
          /\ pc \in {"validate_render_dimensions", "finally", "done"}
          /\ pc # "validate_render_dimensions" =>
                /\ self.result = "CANCELLED"
                /\ self.reports = <<Report("ERROR", DimensionsOfScene[2].error_message)>>

C4_Witness ==
    /\ pc = "done"
    /\ ~SheetFits
    /\ scene.resolution_x = 8193
    /\ self.result = "CANCELLED"

-----------------------------------------------------------------------------
(* Claims on the frame loop (SpecRender) *)

InFrameLoop == pc = "render_frame"
EnabledPasses == Range(render_params.enabled_passes)

\* The frame numbers of the frames kept for a pass
KeptFrames(pass_name) ==
    [i \in 1..Len(loc.all_pass_frames[pass_name]) |-> loc.all_pass_frames[pass_name][i][2]]

\* C6: after k frames of a camera/action sequence, for every enabled pass the
\* kept frames and the durations have the same length (at least 1 once k >= 1),
\* every duration is at least 1, the durations sum to k, and all passes have
\* the same structure.
C6_RunLengthBookkeeping ==
    InFrameLoop =>
        \A p \in EnabledPasses :
            /\ Len(loc.all_pass_frames[p]) = Len(loc.frame_durations[p])
            /\ loc.frame_offset >= 1 => Len(loc.frame_durations[p]) >= 1
            /\ \A i \in 1..Len(loc.frame_durations[p]) : loc.frame_durations[p][i] >= 1
            /\ SumSeq(loc.frame_durations[p]) = loc.frame_offset
            /\ \A q \in EnabledPasses :
                  /\ loc.frame_durations[p] = loc.frame_durations[q]
                  /\ KeptFrames(p) = KeptFrames(q)

C6_Witness ==
    /\ InFrameLoop
    /\ loc.frame_offset = 3
    /\ Len(render_params.enabled_passes) = 2
    /\ \A p \in EnabledPasses : loc.frame_durations[p] = <<1, 2>>

\* The luminance level rendered for the frame at an offset of the sequence
LevelAt(offset) ==
    LET image == ImageAt(loc.temp_dir, FramePath(render_params.enabled_passes[1], loc.start_frame + offset))
    IN  CHOOSE level \in Levels : GreyImage(level) = image

Skipped(offset) ==
    \A p \in EnabledPasses :
        \A i \in 1..Len(loc.all_pass_frames[p]) :
            loc.all_pass_frames[p][i] # FramePath(p, loc.start_frame + offset)

VerySimilarLevels(l1, l2) == l1 = l2 \/ l1 = l2 + 1 \/ l2 = l1 + 1

\* C7: with duplicate skipping enabled a frame is skipped exactly when it is
\* very similar to the frame rendered just before it in the same sequence,
\* kept or not; the first frame of a sequence is never skipped and has no
\* frame to be compared with; with skipping disabled no frame is skipped.
C7_SkipAgainstPrecedingFrame ==
    InFrameLoop =>
        /\ \A j \in 0..(loc.frame_offset - 1) :
              Skipped(j) <=> /\ scene.mcsr_skip_duplicate_frames
                             /\ j >= 1
                             /\ VerySimilarLevels(LevelAt(j), LevelAt(j - 1))
        /\ loc.frame_offset = 0 =>
              /\ loc.duplicate_tracker.previous_frame_path = NoPath
              /\ loc.temp_dir = {}
        /\ (loc.frame_offset >= 1 /\ scene.mcsr_skip_duplicate_frames) =>
              loc.duplicate_tracker.previous_frame_path
                  = FramePath(render_params.enabled_passes[1], loc.start_frame + loc.frame_offset - 1)

C7_Witness ==
    /\ InFrameLoop
    /\ scene.mcsr_skip_duplicate_frames
    /\ loc.frame_offset = 3
    /\ loc.camera_idx = 1
    /\ LevelAt(0) = 0 /\ LevelAt(1) = 1 /\ LevelAt(2) = 2
    /\ Skipped(1) /\ Skipped(2) /\ ~Skipped(0)

-----------------------------------------------------------------------------
(* Claims on the recorded durations (SpecRender) *)

RECURSIVE SumFrames(_)
SumFrames(sprites) == IF sprites = <<>> THEN 0 ELSE Head(sprites).frames + SumFrames(Tail(sprites))

RenderedWithSkipping == pc = "generate_metadata" /\ scene.mcsr_skip_duplicate_frames

\* C10: with duplicate skipping enabled, A actions and C cameras, the metadata
\* entry of action a is built from the durations recorded while action a was
\* rendered, so the "frames" of its sprites sum to the frame count of action a.
C10_DurationsPerAction ==
    RenderedWithSkipping =>
        LET metadata == generate_metadata_dict(render_params.actions_to_render, scene.fps, render_params.actual_render_x, render_params.actual_render_y, render_params.grid_cols, render_params.enabled_passes, RecordedDurations).value
        IN  \A a \in 1..Len(render_params.actions_to_render) :
               SumFrames(metadata.actions[a].sprites) = ActionFrameCount(render_params.actions_to_render[a])

-----------------------------------------------------------------------------
(* Claims on the end of mcsr.render (SpecRender) *)

\* Every camera of every action has gone through its frame loop
AllActionsRendered ==
    /\ self.has_render_context
    /\ \A p \in EnabledPasses :
          Len(self.frame_durations[p])
              = Len(render_params.actions_to_render) * Len(render_params.camera_positions)

MetadataFiles == { f \in fs.files : f.path = <<render_params.output_path, "metadata.json">> }

\* C11: when all actions have been rendered without error, mcsr.render builds
\* the metadata (fps, frame dimensions, passes, sprites per action), saves it
\* as metadata.json in the output path, reports INFO and returns FINISHED.
C11_MetadataSavedAndFinished ==
    (AllActionsRendered /\ pc = "done") =>
        /\ self.result = "FINISHED"
        /\ self.reports[Len(self.reports)].level = "INFO"
        /\ \E f \in MetadataFiles :
              /\ f.content.fps = scene.fps
              /\ f.content.passes = render_params.enabled_passes
              /\ Len(f.content.actions) = Len(render_params.actions_to_render)

\* animation_data.action of an object, None without animation data
ActiveAction(obj) ==
    IF obj.animation_data = NoAnimationData THEN "None" ELSE obj.animation_data.action

Returned_mcsr_render == pc = "done" /\ self.has_render_context

RestoredAfterRender ==
    Returned_mcsr_render =>
        /\ scene.camera = [name |-> "Camera"]
        /\ scene.camera = self.render_context.original_camera
        /\ scene.frame_current = 5
        /\ scene.frame_current = self.render_context.original_frame
        /\ ActiveAction(target) = self.render_context.original_action
        /\ TempCameraName \notin data_objects
        /\ scene.mcsr_debug_preserve_compositor \/ \A n \in scene.nodes : ~IsMcsrNode(n.name)
        /\ wm.progress = "ended"
        /\ self.result \in {"FINISHED", "CANCELLED"}

\* The context records the scene as it is when mcsr.render starts
ContextHoldsValuesBefore ==
    /\ pc = "validate_render_dimensions" => UNCHANGED <<scene, target>>
    /\ pc = "setup_render_context" =>
          /\ self'.render_context.original_camera = scene.camera
          /\ self'.render_context.original_frame = scene.frame_current
          /\ self'.render_context.original_action = ActiveAction(target)
    /\ self.has_render_context => self'.render_context.original_action = self.render_context.original_action

\* C12: once the render context is set up, whatever follows (the end of the
\* render or an exception at any frame of any camera of any action), when
\* mcsr.render returns the scene camera, the current frame and the target's
\* active action are those before the render, no temporary camera remains, the
\* MCSR_ nodes are removed unless mcsr_debug_preserve_compositor is set, and
\* the progress indicator is ended.
C12_CleanupAlways == [][ContextHoldsValuesBefore]_vars /\ []RestoredAfterRender

C12_Witness ==
    /\ Returned_mcsr_render
    /\ self.result = "CANCELLED"
    /\ \E i \in 1..Len(self.reports) :
          self.reports[i] = [level |-> "INFO", msg |-> <<2, 2, 2>>]
    /\ self.reports[Len(self.reports)].exc = "RuntimeError"
    /\ ActiveAction(target) = "Rest"
    /\ ~scene.mcsr_debug_preserve_compositor

-----------------------------------------------------------------------------
(* Claims on the refusals of mcsr.render (Spec) *)

SceneUntouched ==
    /\ scene.camera = [name |-> "Camera"]
    /\ scene.frame_current = 5
    /\ scene.nodes = UserNodes
    /\ target.animation_data = NoAnimationData
    /\ data_objects = {"Cube", "Camera"}
    /\ fs.dirs = {}

RefusedWithError ==
    /\ self.result = "CANCELLED"
    /\ self.reports # <<>>
    /\ \A i \in 1..Len(self.reports) : self.reports[i].level = "ERROR"

\* The render goes on with the current frame as the action "_default"
ProceedsWithDefaultAction ==
    /\ self.reports = <<>>
    /\ self.result # "CANCELLED"
    /\ render_params # NoParams
    /\ render_params.actions_to_render = <<NoAction>>

\* C13: mcsr.render reports an ERROR and returns CANCELLED, the scene unchanged
\* and no output directory created, when there is no active object, no
\* reference camera, no output path, slots of which none holds an action, or no
\* enabled pass; with no action slot at all the render proceeds with the
\* current frame as the action named "_default".
C13_RefusalsAndDefaultAction ==
    /\ (~PrerequisitesMet /\ pc = "done") => (RefusedWithError /\ SceneUntouched)
    /\ (PrerequisitesMet /\ Len(target.mcsr.actions) = 0 /\ pc # "validate_prerequisites")
          => ProceedsWithDefaultAction

-----------------------------------------------------------------------------
(* The panel: object list, preview and settings
   (operators/object_operators.py, operators/preview_operators.py,
   properties.py) *)

PREVIEW_COLLECTION_NAME == "MCSR_Preview"
PREVIEW_PARENT_NAME == "MCSR_Preview_Parent"

\* f"{PREVIEW_CAMERA_PREFIX}{i:02d}" for i = 0..23, entry i + 1 of the table
PreviewCameraNames ==
    << "MCSR_Preview_Camera_00", "MCSR_Preview_Camera_01", "MCSR_Preview_Camera_02",
       "MCSR_Preview_Camera_03", "MCSR_Preview_Camera_04", "MCSR_Preview_Camera_05",
       "MCSR_Preview_Camera_06", "MCSR_Preview_Camera_07", "MCSR_Preview_Camera_08",
       "MCSR_Preview_Camera_09", "MCSR_Preview_Camera_10", "MCSR_Preview_Camera_11",
       "MCSR_Preview_Camera_12", "MCSR_Preview_Camera_13", "MCSR_Preview_Camera_14",
       "MCSR_Preview_Camera_15", "MCSR_Preview_Camera_16", "MCSR_Preview_Camera_17",
       "MCSR_Preview_Camera_18", "MCSR_Preview_Camera_19", "MCSR_Preview_Camera_20",
       "MCSR_Preview_Camera_21", "MCSR_Preview_Camera_22", "MCSR_Preview_Camera_23" >>
PreviewCameraName(i) == PreviewCameraNames[i + 1]

\* obj.name.startswith(PREVIEW_CAMERA_PREFIX)
HasPreviewCameraPrefix(name) == \E i \in 1..Len(PreviewCameraNames) : PreviewCameraNames[i] = name

DEFAULT_CAMERA_COUNT == 4

\* An object of bpy.data.objects
Object(name, type, parent, collection) ==
    [name |-> name, type |-> type, parent |-> parent, collection |-> collection]

SceneCollection == "Scene Collection"

\* An angle in degrees, the fraction num / den
Degrees(num, den) == [num |-> num, den |-> den]

\* The MCSR settings of an object on which no update has run
DefaultSettings ==
    [reference_camera |-> "None", camera_count |-> DEFAULT_CAMERA_COUNT, camera_angles |-> <<>>]

\* The objects of the scene the panel works on
BaseObjects ==
    { Object("Cube", "MESH", "None", SceneCollection),
      Object("Sphere", "MESH", "None", SceneCollection),
      Object("Camera", "CAMERA", "None", SceneCollection) }

ObjectNamed(objects, name) == CHOOSE o \in objects : o.name = name
Exists(objects, name) == \E o \in objects : o.name = name

\* cleanup_preview_cameras(): the collections left
CollectionsAfterCleanup(collections) == collections \ {PREVIEW_COLLECTION_NAME}

\* cleanup_preview_cameras(): the objects left
ObjectsAfterCleanup(objects) ==
    { o \in objects : ~HasPreviewCameraPrefix(o.name) /\ o.name # PREVIEW_PARENT_NAME }

\* The poses create_preview_cameras places its cameras at: one per entry of
\* camera_angles, the reference excluded.  The geometry takes entry i as the
\* i-th exact angle of AngleTable.
PreviewPoses(settings) ==
    calculate_camera_positions(TargetLocation, PyList(AngleList(Len(settings.camera_angles), 0, 1)), RenderReferenceCamera, FALSE).value

\* The cameras of create_preview_cameras given one name too far
PreviewCamerasShifted(settings) ==
    { Object(PreviewCameraName(i), "CAMERA", PREVIEW_PARENT_NAME, PREVIEW_COLLECTION_NAME) :
        i \in 1..Len(PreviewPoses(settings)) }

\* The cameras create_preview_cameras creates, named, parented and linked
PreviewCameras(settings) ==
    { Object(PreviewCameraName(i - 1), "CAMERA", PREVIEW_PARENT_NAME, PREVIEW_COLLECTION_NAME) :
        i \in 1..Len(PreviewPoses(settings)) }

\* create_preview_cameras(context) leaves the panel p with the preview
\* collection, the parent empty (now the context's active object) and the
\* cameras; without a target or a reference camera it does nothing.
create_preview_cameras(p) ==
    IF \/ p.mcsr_active_object = NoObject
       \/ p.settings[p.mcsr_active_object].reference_camera = "None"
    THEN p
    ELSE [p EXCEPT
            !.collections = @ \cup {PREVIEW_COLLECTION_NAME},
            !.active_object = PREVIEW_PARENT_NAME,
            !.objects = @ \cup { Object(PREVIEW_PARENT_NAME, "EMPTY", "None", PREVIEW_COLLECTION_NAME) }
                          \cup PreviewCameras(p.settings[p.mcsr_active_object])]

\* cleanup_preview_cameras() on the panel p
cleanup_preview_cameras(p) ==
    [p EXCEPT !.collections = CollectionsAfterCleanup(@),
              !.objects = ObjectsAfterCleanup(@),
              !.active_object = IF Exists(ObjectsAfterCleanup(p.objects), @) THEN @ ELSE "None"]

\* What an operator leaves behind: its name, its result, the level it reported
Ran(p, op, result, level) == [p EXCEPT !.last = [op |-> op, result |-> result, level |-> level]]

\* The test of add_selected for an object already listed, never true.
InListNever(mcsr_objects, obj) == FALSE

\* for item in scene.mcsr_objects: if item.object == active_obj
InList(mcsr_objects, obj) == \E i \in 1..Len(mcsr_objects) : mcsr_objects[i] = obj

\* The index (from 1) of the first entry holding obj
FirstIndex(mcsr_objects, obj) ==
    CHOOSE i \in 1..Len(mcsr_objects) :
        mcsr_objects[i] = obj /\ \A j \in 1..(i - 1) : mcsr_objects[j] # obj

\* The last entry removed instead of entry i.
RemoveLast(mcsr_objects, i) == SubSeq(mcsr_objects, 1, Len(mcsr_objects) - 1)

\* scene.mcsr_objects.remove(i), i from 1
RemoveAt(mcsr_objects, i) ==
    SubSeq(mcsr_objects, 1, i - 1) \o SubSeq(mcsr_objects, i + 1, Len(mcsr_objects))

\* mcsr.add_selected
AddSelected ==
    /\ panel # NoPanel
    /\ panel' =
         IF panel.active_object = "None"
         THEN Ran(panel, "mcsr.add_selected", "CANCELLED", "ERROR")
         ELSE IF ObjectNamed(panel.objects, panel.active_object).type # "MESH"
         THEN Ran(panel, "mcsr.add_selected", "CANCELLED", "ERROR")
         ELSE IF InList(panel.mcsr_objects, panel.active_object)
         THEN Ran(panel, "mcsr.add_selected", "CANCELLED", "INFO")
         ELSE Ran([panel EXCEPT !.mcsr_objects = Append(@, panel.active_object),
                                !.mcsr_active_object = panel.active_object],
                  "mcsr.add_selected", "FINISHED", "NONE")
    /\ UNCHANGED <<pureVars, opVars>>

\* mcsr.remove_active
RemoveActive ==
    /\ panel # NoPanel
    /\ panel' =
         IF panel.mcsr_active_object = NoObject
         THEN Ran(panel, "mcsr.remove_active", "CANCELLED", "ERROR")
         ELSE IF InList(panel.mcsr_objects, panel.mcsr_active_object)
         THEN Ran([panel EXCEPT
                     !.mcsr_objects = RemoveAt(@, FirstIndex(@, panel.mcsr_active_object)),
                     !.mcsr_active_object = NoObject],
                  "mcsr.remove_active", "FINISHED", "NONE")
         ELSE Ran(panel, "mcsr.remove_active", "FINISHED", "NONE")
    /\ UNCHANGED <<pureVars, opVars>>

\* The names mcsr.select_object is called with
SelectableNames == {"Cube", "Sphere", "Camera", "Missing"}

\* mcsr.select_object
SelectObject ==
    /\ panel # NoPanel
    /\ \E object_name \in SelectableNames :
         panel' =
            IF ~Exists(panel.objects, object_name)
            THEN Ran(panel, "mcsr.select_object", "CANCELLED", "ERROR")
            ELSE Ran([panel EXCEPT !.mcsr_active_object = object_name],
                     "mcsr.select_object", "FINISHED", "NONE")
    /\ UNCHANGED <<pureVars, opVars>>

\* toggle_preview(context) of mcsr.toggle_preview
toggle_preview(p) ==
    IF p.mcsr_show_preview
    THEN create_preview_cameras(cleanup_preview_cameras(p))
    ELSE cleanup_preview_cameras(p)

\* The test for the target alone.
NoTargetOnly(p) == p.mcsr_active_object = NoObject

\* not self.active_object, or not self.active_object.mcsr.reference_camera
NoTargetOrReference(p) ==
    \/ p.mcsr_active_object = NoObject
    \/ p.settings[p.mcsr_active_object].reference_camera = "None"

\* mcsr.toggle_preview
TogglePreview ==
    /\ panel # NoPanel
    /\ panel' =
         IF NoTargetOrReference(panel)
         THEN Ran(panel, "mcsr.toggle_preview", "CANCELLED", "ERROR")
         ELSE Ran(toggle_preview([panel EXCEPT !.mcsr_show_preview = ~@]),
                  "mcsr.toggle_preview", "FINISHED", "NONE")
    /\ UNCHANGED <<pureVars, opVars>>

\* mcsr.update_preview
UpdatePreview ==
    /\ panel # NoPanel
    /\ panel' =
         IF NoTargetOrReference(panel)
         THEN Ran(panel, "mcsr.update_preview", "CANCELLED", "ERROR")
         ELSE IF ~panel.mcsr_show_preview
         THEN Ran(panel, "mcsr.update_preview", "FINISHED", "NONE")
         ELSE Ran(create_preview_cameras(cleanup_preview_cameras(panel)),
                  "mcsr.update_preview", "FINISHED", "NONE")
    /\ UNCHANGED <<pureVars, opVars>>

\* The loop of mcsr.render_all from entry i on.  outcomes[i] is how
\* bpy.ops.mcsr.render() ends for entry i: it returns, or it raises the
\* RuntimeError bpy.ops makes of an ERROR report of the operator called.
\* The loop yields the active MCSR object, the renders run (each with the
\* active MCSR object it ran with) and whether an exception left the loop.
RECURSIVE RenderAllLoop(_, _, _, _, _)
RenderAllLoop(mcsr_objects, outcomes, i, active, renders) ==
    IF i > Len(mcsr_objects)
    THEN [active |-> active, renders |-> renders, raised |-> FALSE]
    ELSE IF mcsr_objects[i] = "None"
    THEN RenderAllLoop(mcsr_objects, outcomes, i + 1, active, renders)
    ELSE IF outcomes[i] = "raises"
    THEN [active |-> mcsr_objects[i], renders |-> Append(renders, mcsr_objects[i]), raised |-> TRUE]
    ELSE RenderAllLoop(mcsr_objects, outcomes, i + 1, mcsr_objects[i], Append(renders, mcsr_objects[i]))

\* What mcsr.render_all leaves behind: its result and the renders it ran
RanRenderAll(p, result, level, renders) ==
    [p EXCEPT !.last = [op |-> "mcsr.render_all", result |-> result, level |-> level, renders |-> renders, original_active |-> p.mcsr_active_object]]

\* mcsr.render_all
RenderAll ==
    /\ panel # NoPanel
    /\ IF panel.mcsr_objects = <<>>
       THEN panel' = RanRenderAll(panel, "CANCELLED", "ERROR", <<>>)
       ELSE \E outcomes \in [1..Len(panel.mcsr_objects) -> {"returns", "raises"}] :
              LET original_active == panel.mcsr_active_object
                  r == RenderAllLoop(panel.mcsr_objects, outcomes, 1, original_active, <<>>)
              IN  panel' =
                     IF r.raised
                     THEN [RanRenderAll(panel, "RuntimeError", "ERROR", r.renders) EXCEPT !.mcsr_active_object = r.active]
                     ELSE [RanRenderAll(panel, "FINISHED", "NONE", r.renders) EXCEPT !.mcsr_active_object = original_active]
    /\ UNCHANGED <<pureVars, opVars>>

\* The angles one camera further round the ring each.
EquidistantAnglesFromFirstStep(camera_count) ==
    [k \in 1..camera_count |-> [angle |-> Degrees(k * 360, camera_count)]]

\* The angles update_camera_angles adds: (i / camera_count) * 360 for
\* i = 0..camera_count - 1
EquidistantAngles(camera_count) ==
    [k \in 1..camera_count |-> [angle |-> Degrees((k - 1) * 360, camera_count)]]

\* update_preview(self, context) of properties.py
update_preview(p) ==
    IF ~p.mcsr_show_preview THEN p
    ELSE create_preview_cameras(cleanup_preview_cameras(p))

\* update_camera_angles(self, context), self the settings of obj
update_camera_angles(p, obj) ==
    update_preview([p EXCEPT !.settings[obj].camera_angles = EquidistantAngles(p.settings[obj].camera_count)])

\* update_reference_camera(self, context): the assignment of camera_count
\* runs update_camera_angles
update_reference_camera(p, obj) ==
    update_camera_angles([p EXCEPT !.settings[obj].camera_count = DEFAULT_CAMERA_COUNT], obj)

\* The cameras camera_count is set to, and the object whose settings are edited
MaxPanelCameras == 3
EditedObjects == {"Cube"}
EditedAngles == { Degrees(45, 1) }

NoOperator == [op |-> "none", result |-> "NONE", level |-> "NONE"]

\* camera_count of an object is set
SetCameraCount ==
    /\ panel # NoPanel
    /\ \E obj \in EditedObjects, n \in MinCameraCount..MaxPanelCameras :
         panel' = [update_camera_angles([panel EXCEPT !.settings[obj].camera_count = n], obj)
                      EXCEPT !.last = [op |-> "camera_count", result |-> "NONE", level |-> "NONE"]]
    /\ UNCHANGED <<pureVars, opVars>>

\* reference_camera of an object is set
SetReferenceCamera ==
    /\ panel # NoPanel
    /\ \E obj \in EditedObjects, cam \in {"None", "Camera"} :
         panel' = [update_reference_camera([panel EXCEPT !.settings[obj].reference_camera = cam], obj)
                      EXCEPT !.last = [op |-> "reference_camera", result |-> "NONE", level |-> "NONE"]]
    /\ UNCHANGED <<pureVars, opVars>>

\* One angle of camera_angles is edited
SetAngle ==
    /\ panel # NoPanel
    /\ \E obj \in EditedObjects, value \in EditedAngles :
         \E i \in 1..Len(panel.settings[obj].camera_angles) :
            panel' = [update_preview([panel EXCEPT !.settings[obj].camera_angles[i].angle = value])
                         EXCEPT !.last = [op |-> "angle", result |-> "NONE", level |-> "NONE", index |-> i]]
    /\ UNCHANGED <<pureVars, opVars>>

\* The user makes an object of the scene the context's active object
ContextSelect ==
    /\ panel # NoPanel
    /\ \E o \in panel.objects :
         /\ o.name \in {"Cube", "Sphere", "Camera"}
         /\ panel' = [panel EXCEPT !.active_object = o.name, !.last = NoOperator]
    /\ UNCHANGED <<pureVars, opVars>>

\* An object is removed from the file: the pointers to it become None
ObjectRemoved ==
    /\ panel # NoPanel
    /\ \E name \in {"Sphere"} :
         /\ Exists(panel.objects, name)
         /\ panel' = [panel EXCEPT
                        !.objects = { o \in @ : o.name # name },
                        !.mcsr_objects = [i \in 1..Len(@) |-> IF @[i] = name THEN "None" ELSE @[i]],
                        !.mcsr_active_object = IF @ = name THEN NoObject ELSE @,
                        !.active_object = IF @ = name THEN "None" ELSE @,
                        !.last = NoOperator]
    /\ UNCHANGED <<pureVars, opVars>>

\* The panel of a scene on which no operator has run
NewPanel ==
    [mcsr_objects |-> <<>>,
     mcsr_active_object |-> NoObject,
     active_object |-> "None",
     mcsr_show_preview |-> FALSE,
     settings |-> [o \in {"Cube", "Sphere", "Camera"} |-> DefaultSettings],
     collections |-> {},
     objects |-> BaseObjects,
     last |-> NoOperator]

-----------------------------------------------------------------------------
(* SpecPanel: the operators of the object list *)

InitPanel ==
    /\ panel = NewPanel
    /\ PureIdle
    /\ OperatorIdle

NextPanel ==
    \/ AddSelected
    \/ RemoveActive
    \/ SelectObject
    \/ RenderAll
    \/ ContextSelect
    \/ ObjectRemoved

SpecPanel == InitPanel /\ [][NextPanel]_vars

-----------------------------------------------------------------------------
(* SpecPreview: the preview operators and the updates of the settings, with
   the list as mcsr.add_selected left it *)

InitPreview ==
    /\ \E listed \in { <<>>, <<"Cube">>, <<"Cube", "Sphere">> } :
         \E active \in {NoObject} \cup Range(listed) :
            panel = [NewPanel EXCEPT !.mcsr_objects = listed,
                                     !.mcsr_active_object = active,
                                     !.active_object = active]
    /\ PureIdle
    /\ OperatorIdle

NextPreview ==
    \/ TogglePreview
    \/ UpdatePreview
    \/ SetCameraCount
    \/ SetReferenceCamera
    \/ SetAngle
    \/ SelectObject

SpecPreview == InitPreview /\ [][NextPreview]_vars

-----------------------------------------------------------------------------
(* Claims on the object list (SpecPanel) *)

RenderAllReturned == panel.last.op = "mcsr.render_all"

\* The entries of the list whose object is set, in list order
EntriesWithObject == SelectSeq(panel.mcsr_objects, LAMBDA o : o # "None")

\* C14: mcsr.render_all returns CANCELLED with an ERROR on an empty list;
\* otherwise it runs mcsr.render once for each entry whose object is set, in
\* list order, with that object active, and whatever the renders' outcome
\* mcsr_active_object ends as it was before the call.
C14_RenderAllRestoresActive ==
    RenderAllReturned =>
        IF panel.mcsr_objects = <<>>
        THEN panel.last.result = "CANCELLED" /\ panel.last.level = "ERROR"
        ELSE /\ panel.last.renders = EntriesWithObject
             /\ panel.mcsr_active_object = panel.last.original_active

NoDuplicates ==
    \A i, j \in 1..Len(panel.mcsr_objects) :
        (i # j /\ panel.mcsr_objects[i] # "None") => panel.mcsr_objects[i] # panel.mcsr_objects[j]

IsNewMesh(name) ==
    /\ \E o \in panel.objects : o.name = name /\ o.type = "MESH"
    /\ \A i \in 1..Len(panel.mcsr_objects) : panel.mcsr_objects[i] # name

\* The panel apart from what the last operator left behind
Content(p) == [p EXCEPT !.last = NoOperator]

AddSelectedStep ==
    panel'.last.op = "mcsr.add_selected" =>
        IF IsNewMesh(panel.active_object)
        THEN /\ panel'.last.result = "FINISHED"
             /\ panel'.mcsr_objects = panel.mcsr_objects \o <<panel.active_object>>
             /\ panel'.mcsr_active_object = panel.active_object
        ELSE /\ panel'.last.result = "CANCELLED"
             /\ Content(panel') = Content(panel)

\* C15: the list never holds the same object twice; mcsr.add_selected appends
\* the context's active object and makes it the active MCSR object only when
\* it is a mesh not yet listed, and otherwise returns CANCELLED with the list
\* and mcsr_active_object unchanged.
C15_NoObjectTwice == []NoDuplicates /\ [][AddSelectedStep]_vars

C15_Witness ==
    /\ panel.last.op = "mcsr.add_selected"
    /\ panel.last.result = "CANCELLED"
    /\ panel.last.level = "INFO"
    /\ panel.mcsr_objects = <<"Sphere", "Cube">>
    /\ panel.active_object = "Sphere"

\* list is old with exactly the entry at position i taken out
TakenOut(old, list, i) ==
    /\ Len(list) = Len(old) - 1
    /\ \A k \in 1..Len(list) : list[k] = IF k < i THEN old[k] ELSE old[k + 1]

Listed(p, name) == \E i \in 1..Len(p.mcsr_objects) : p.mcsr_objects[i] = name

RemoveActiveStep ==
    panel'.last.op = "mcsr.remove_active" =>
        IF panel.mcsr_active_object = NoObject
        THEN /\ panel'.last.result = "CANCELLED"
             /\ Content(panel') = Content(panel)
        ELSE /\ panel'.last.result = "FINISHED"
             /\ ~Listed(panel', panel.mcsr_active_object)
             /\ Listed(panel, panel.mcsr_active_object) =>
                   /\ \E i \in 1..Len(panel.mcsr_objects) :
                         /\ panel.mcsr_objects[i] = panel.mcsr_active_object
                         /\ TakenOut(panel.mcsr_objects, panel'.mcsr_objects, i)
                   /\ panel'.mcsr_active_object = NoObject

\* C16: mcsr.remove_active, the active MCSR object being listed, removes that
\* object's entry alone, the others and their order unchanged, and sets
\* mcsr_active_object to None; with no active MCSR object it returns CANCELLED
\* and changes nothing; after FINISHED the formerly active object is not listed.
C16_RemoveActive == [][RemoveActiveStep]_vars

C16_Witness ==
    /\ panel.last.op = "mcsr.remove_active"
    /\ panel.last.result = "FINISHED"
    /\ panel.mcsr_objects = <<"Sphere">>
    /\ panel.active_object = "Sphere"
    /\ panel.mcsr_active_object = NoObject

-----------------------------------------------------------------------------
(* Claims on the preview (SpecPreview) *)

HasReferenceCamera(p) ==
    /\ p.mcsr_active_object # NoObject
    /\ p.settings[p.mcsr_active_object].reference_camera # "None"

PreviewCamerasOf(p) == { o \in p.objects : HasPreviewCameraPrefix(o.name) }
PreviewParentsOf(p) == { o \in p.objects : o.name = PREVIEW_PARENT_NAME }

PreviewShown(p) ==
    LET n == Len(p.settings[p.mcsr_active_object].camera_angles)
    IN  /\ PREVIEW_COLLECTION_NAME \in p.collections
        /\ Cardinality(PreviewParentsOf(p)) = 1
        /\ \A o \in PreviewParentsOf(p) : o.collection = PREVIEW_COLLECTION_NAME
        /\ Cardinality(PreviewCamerasOf(p)) = n
        /\ \A i \in 0..(n - 1) :
              \E o \in PreviewCamerasOf(p) :
                 /\ o.name = PreviewCameraName(i)
                 /\ o.parent = PREVIEW_PARENT_NAME
                 /\ o.collection = PREVIEW_COLLECTION_NAME

PreviewHidden(p) ==
    /\ PREVIEW_COLLECTION_NAME \notin p.collections
    /\ PreviewParentsOf(p) = {}
    /\ PreviewCamerasOf(p) = {}

TogglePreviewStep ==
    (panel'.last.op = "mcsr.toggle_preview" /\ HasReferenceCamera(panel)) =>
        /\ panel'.last.result = "FINISHED"
        /\ panel'.mcsr_show_preview = ~panel.mcsr_show_preview
        /\ IF panel'.mcsr_show_preview THEN PreviewShown(panel') ELSE PreviewHidden(panel')

\* C17: mcsr.toggle_preview on an active object with a reference camera flips
\* mcsr_show_preview; shown, there are one MCSR_Preview_Parent and
\* len(camera_angles) cameras MCSR_Preview_Camera_00, _01, ..., parented to it
\* and linked to the MCSR_Preview collection; hidden, no preview collection,
\* parent or camera remains.
C17_TogglePreview == [][TogglePreviewStep]_vars

C17_Witness ==
    /\ panel.last.op = "mcsr.toggle_preview"
    /\ panel.last.result = "FINISHED"
    /\ panel.mcsr_show_preview
    /\ Cardinality(PreviewCamerasOf(panel)) = 3
    /\ panel.active_object = PREVIEW_PARENT_NAME

PreviewRefusalStep ==
    /\ (panel'.last.op \in {"mcsr.toggle_preview", "mcsr.update_preview"} /\ ~HasReferenceCamera(panel)) =>
          /\ panel'.last.result = "CANCELLED"
          /\ panel'.last.level = "ERROR"
          /\ Content(panel') = Content(panel)
    /\ (panel'.last.op = "mcsr.update_preview" /\ HasReferenceCamera(panel) /\ ~panel.mcsr_show_preview) =>
          /\ panel'.last.result = "FINISHED"
          /\ panel'.objects = panel.objects
          /\ panel'.collections = panel.collections

\* C18: mcsr.toggle_preview and mcsr.update_preview return CANCELLED with an
\* ERROR, mcsr_show_preview and the preview objects unchanged, when there is no
\* active MCSR object or it has no reference camera; mcsr.update_preview with
\* the preview hidden returns FINISHED and creates or removes no object.
C18_PreviewRefusals == [][PreviewRefusalStep]_vars

C18_Witness ==
    /\ panel.last.op = "mcsr.update_preview"
    /\ panel.last.result = "CANCELLED"
    /\ panel.mcsr_active_object = "Sphere"
    /\ panel.mcsr_show_preview
    /\ Cardinality(PreviewCamerasOf(panel)) = 2

-----------------------------------------------------------------------------
(* Claims on the camera angles (SpecPreview) *)

EditedSettings(p) == p.settings["Cube"]

\* Entry i (from 0) is i * 360 / camera_count degrees
Equidistant(settings) ==
    \A i \in 0..(Len(settings.camera_angles) - 1) :
        settings.camera_angles[i + 1].angle.num * settings.camera_count
            = i * 360 * settings.camera_angles[i + 1].angle.den

AnglesUpdateStep ==
    panel'.last.op \in {"camera_count", "reference_camera"} =>
        /\ EditedSettings(panel').camera_count \in 1..24
        /\ Len(EditedSettings(panel').camera_angles) = EditedSettings(panel').camera_count
        /\ Equidistant(EditedSettings(panel'))

AngleEditStep ==
    panel'.last.op = "angle" =>
        /\ Len(EditedSettings(panel').camera_angles) = Len(EditedSettings(panel).camera_angles)
        /\ Len(EditedSettings(panel').camera_angles) = EditedSettings(panel').camera_count
        /\ \A k \in 1..Len(EditedSettings(panel).camera_angles) :
              k # panel'.last.index =>
                 EditedSettings(panel').camera_angles[k] = EditedSettings(panel).camera_angles[k]

\* C19: after an update of camera_count or of reference_camera, camera_angles
\* has camera_count entries (1 to 24), entry i being i * 360 / camera_count
\* degrees; an edit of one angle changes that entry alone and keeps
\* len(camera_angles) equal to camera_count.
C19_EquidistantAngles == [][AnglesUpdateStep /\ AngleEditStep]_vars

C19_Witness ==
    /\ panel.last.op = "angle"
    /\ panel.last.index = 2
    /\ EditedSettings(panel).camera_count = 3
    /\ EditedSettings(panel).camera_angles[2].angle = Degrees(45, 1)
    /\ EditedSettings(panel).camera_angles[3].angle = Degrees(720, 3)

-----------------------------------------------------------------------------
(* The node tree of the scene under calls of setup_compositor_nodes and
   cleanup_compositor_nodes (SpecNodes).  The links between the nodes and the
   pass flags of the view layer are not kept. *)

MaxSetupCalls == 3

\* Nodes the user has in the tree: the scene's own two, a node the user
\* named with the prefix, and a render layers node left with a numbered name
OtherNodes ==
    { Node(<<"", "Composite", 0>>, "CompositorNodeComposite"),
      Node(<<"", "Render Layers", 0>>, "CompositorNodeRLayers"),
      Node(<<"MCSR_", "Output_lit", 0>>, "CompositorNodeViewer"),
      Node(<<"MCSR_", "RenderLayers", 1>>, "CompositorNodeRLayers") }

AllPassSwitches == { <<l, d, s, n>> : l \in BOOLEAN, d \in BOOLEAN, s \in BOOLEAN, n \in BOOLEAN }

\* The last call made, none at first and after the user's change of a switch;
\* calls counts the calls of setup_compositor_nodes since the last
\* cleanup_compositor_nodes and passes holds the passes of the last one
NoNodesCall == [fn |-> "none", passes |-> <<>>, calls |-> 0]

InitNodes ==
    /\ \E tree \in SUBSET OtherNodes, switches \in AllPassSwitches :
         scene = [Scene(NoObject, switches, FALSE, FALSE, <<64, 64, 100>>) EXCEPT !.nodes = tree]
    /\ call = NoNodesCall
    /\ ret = Pending
    /\ target = Target(NoCamera, "", <<>>, MinCameraCount, NoAnimationData)
    /\ render_params = NoParams
    /\ OperatorStart
    /\ pc = "off"
    /\ PanelIdle

\* setup_compositor_nodes(scene, temp_dir, get_enabled_passes(scene))
SetupCompositorNodes ==
    /\ LET passes == get_enabled_passes(scene)
       IN  /\ scene' = [scene EXCEPT !.nodes = setup_compositor_nodes(@, passes)]
           /\ call' = [fn |-> "setup_compositor_nodes", passes |-> passes,
                       calls |-> IF call.calls < MaxSetupCalls THEN call.calls + 1 ELSE call.calls]
    /\ ret' = Return("None")
    /\ UNCHANGED <<target, render_params, self, wm, data_objects, fs, pc, loc, panel>>

\* cleanup_compositor_nodes(scene)
CleanupCompositorNodes ==
    /\ scene' = [scene EXCEPT !.nodes = cleanup_compositor_nodes(@)]
    /\ call' = [fn |-> "cleanup_compositor_nodes", passes |-> <<>>, calls |-> 0]
    /\ ret' = Return("None")
    /\ UNCHANGED <<target, render_params, self, wm, data_objects, fs, pc, loc, panel>>

\* The user sets the pass switches of the panel between two calls
SetPassSwitches ==
    /\ \E switches \in AllPassSwitches :
         /\ switches # <<scene.mcsr_render_lit, scene.mcsr_render_diffuse,
                         scene.mcsr_render_specular, scene.mcsr_render_normal>>
         /\ scene' = [scene EXCEPT !.mcsr_render_lit = switches[1],
                                   !.mcsr_render_diffuse = switches[2],
                                   !.mcsr_render_specular = switches[3],
                                   !.mcsr_render_normal = switches[4]]
    /\ call' = [call EXCEPT !.fn = "none"]
    /\ UNCHANGED <<ret, target, render_params, self, wm, data_objects, fs, pc, loc, panel>>

NextNodes ==
    \/ SetupCompositorNodes
    \/ CleanupCompositorNodes
    \/ SetPassSwitches

SpecNodes == InitNodes /\ [][NextNodes]_vars

-----------------------------------------------------------------------------
(* Claims on the animation grid (SpecPure) *)

\* Channel j of the pixel at the buffer coordinate (x, y) of an image
Buffer(img, x, y, j) == img.pixels[(y * img.width + x) * 4 + j + 1]

AnimationCallDone ==
    /\ call.fn = "create_final_pass_animations"
    /\ Returned(ret)

\* C20: create_animation_from_frames tiles the kept frames without spacing:
\* frame i < grid_cols * grid_rows lands unflipped in the rectangle starting at
\* ((i mod grid_cols) * w, (i div grid_cols) * h) of a (w * grid_cols) by
\* (h * grid_rows) image, later frames are dropped, no two frames overlap and
\* every other pixel stays transparent; one kept frame is copied unchanged and
\* no kept frame writes nothing.
C20_AnimationGrid ==
    AnimationCallDone =>
        LET frames == call.frames
            n == Len(frames)
            w == call.actual_render_x
            h == call.actual_render_y
            cols == call.grid_cols
            rows == call.grid_rows
            placed == IF n < cols * rows THEN n ELSE cols * rows
            out == ret.value
            Owners(X, Y) ==
                { o \in (0..(placed - 1)) \X (0..(w - 1)) \X (0..(h - 1)) :
                    /\ (o[1] % cols) * w + o[2] = X
                    /\ (o[1] \div cols) * h + o[3] = Y }
        IN  IF n = 0 THEN out = NoFile
            ELSE IF n = 1 THEN out = frames[1]
            ELSE /\ out.width = w * cols
                 /\ out.height = h * rows
                 /\ Len(out.pixels) = out.width * out.height * 4
                 /\ \A X \in 0..(out.width - 1), Y \in 0..(out.height - 1) :
                       /\ Cardinality(Owners(X, Y)) <= 1
                       /\ \A j \in 0..3 :
                             IF Owners(X, Y) = {}
                             THEN Buffer(out, X, Y, j) = 0
                             ELSE \A o \in Owners(X, Y) :
                                     Buffer(out, X, Y, j) = Buffer(frames[o[1] + 1], o[2], o[3], j)

C20_Witness ==
    /\ AnimationCallDone
    /\ Len(call.frames) = 5
    /\ call.grid_cols = 2 /\ call.grid_rows = 2
    /\ call.actual_render_x = 2 /\ call.actual_render_y = 1
    \* the second pixel of the third frame, in the second row of the grid
    /\ Buffer(ret.value, 1, 1, 0) = Buffer(call.frames[3], 1, 0, 0)
    \* the fifth frame is dropped
    /\ \A d \in 1..Len(ret.value.pixels) : ret.value.pixels[d] < 5000

-----------------------------------------------------------------------------
(* Claims on the comparison of two frames (SpecPure) *)

SimilarityCallDone ==
    /\ call.fn = "are_images_very_similar"
    /\ Returned(ret)

BothFilesExist ==
    /\ \E f \in call.files : f.path = call.image_path1
    /\ \E f \in call.files : f.path = call.image_path2

SameSize(i1, i2) == i1.width = i2.width /\ i1.height = i2.height

\* The pixels of the grid with steps max(1, width div 8) and max(1, height div 8)
Sampled(image) ==
    LET sx == IF image.width \div 8 >= 1 THEN image.width \div 8 ELSE 1
        sy == IF image.height \div 8 >= 1 THEN image.height \div 8 ELSE 1
    IN  { xy \in (0..(image.width - 1)) \X (0..(image.height - 1)) :
            xy[1] % sx = 0 /\ xy[2] % sy = 0 }

\* Two images of one size with the same RGB at every sampled pixel
AgreeOnSampledRGB(i1, i2) ==
    /\ SameSize(i1, i2)
    /\ \A xy \in Sampled(i1) : \A j \in 0..2 :
          Buffer(i1, xy[1], xy[2], j) = Buffer(i2, xy[1], xy[2], j)

\* C21: are_images_very_similar is False when a file is missing or the sizes
\* differ; otherwise the result depends only on the RGB of the pixels of the
\* sampling grid: it is symmetric, an image is similar to itself, and images
\* of one size that agree on RGB at every sampled pixel are similar whatever
\* their alpha and their other pixels.
C21_SimilarityOfSampledRGB ==
    SimilarityCallDone =>
        IF ~BothFilesExist
        THEN ret.value = FALSE
        ELSE LET i1 == ImageAt(call.files, call.image_path1)
                 i2 == ImageAt(call.files, call.image_path2)
             IN  /\ ~SameSize(i1, i2) => ret.value = FALSE
                 /\ ret.value = are_images_very_similar(call.image_path2, call.image_path1, call.files)
                 /\ i1 = i2 => ret.value = TRUE
                 /\ AgreeOnSampledRGB(i1, i2) => ret.value = TRUE
                 /\ \A o1 \in SimilarityImages(<<i1.width, i1.height>>), o2 \in SimilarityImages(<<i2.width, i2.height>>) :
                       (AgreeOnSampledRGB(i1, o1) /\ AgreeOnSampledRGB(i2, o2)) =>
                           ret.value = are_images_very_similar("a.png", "b.png", { File("a.png", o1), File("b.png", o2) })

C21_Witness ==
    /\ SimilarityCallDone
    /\ BothFilesExist
    /\ LET i1 == ImageAt(call.files, call.image_path1)
           i2 == ImageAt(call.files, call.image_path2)
       IN  /\ i1.width = 16 /\ i1.height = 1
           \* differing in the alpha of the first pixel, which is sampled
           /\ i1 = Edited(FrameImage(16, 1), 0, 3, 10)
           \* and in the red of the second pixel, which is not
           /\ i2 = Edited(FrameImage(16, 1), 1, 0, 1000)
    /\ ret.value = TRUE

-----------------------------------------------------------------------------
(* Claims on the compositor nodes (SpecNodes) *)

\* The nodes named with the prefix and a rest, whatever number follows
NodesNamed(nodes, rest) == { n \in nodes : n.name[1] = "MCSR_" /\ n.name[2] = rest }

OutputName(pass_name) ==
    CASE pass_name = "lit" -> "Output_lit"
      [] pass_name = "diffuse" -> "Output_diffuse"
      [] pass_name = "specular" -> "Output_specular"
      [] pass_name = "normal" -> "Output_normal"

\* A call of cleanup_compositor_nodes takes away the nodes whose name starts
\* with "MCSR_" and no other, and adds none
CleanupStep ==
    call'.fn = "cleanup_compositor_nodes" =>
        /\ scene'.nodes \subseteq scene.nodes
        /\ \A n \in scene.nodes : n \in scene'.nodes <=> n.name[1] # "MCSR_"
        /\ [scene' EXCEPT !.nodes = {}] = [scene EXCEPT !.nodes = {}]

\* After a call of setup_compositor_nodes, the first or a later one in a row
OneNodeEach ==
    call.fn = "setup_compositor_nodes" =>
        /\ Cardinality(NodesNamed(scene.nodes, "RenderLayers")) = 1
        /\ Node(<<"MCSR_", "RenderLayers", 0>>, "CompositorNodeRLayers") \in scene.nodes
        /\ \A i \in 1..Len(call.passes) :
              /\ Cardinality({ n \in NodesNamed(scene.nodes, OutputName(call.passes[i])) :
                                 n.type = "CompositorNodeOutputFile" }) = 1
              /\ Node(<<"MCSR_", OutputName(call.passes[i]), 0>>, "CompositorNodeOutputFile") \in scene.nodes

\* C22: cleanup_compositor_nodes removes exactly the nodes whose name starts
\* with "MCSR_" and leaves every other node unchanged; after any number of
\* consecutive calls of setup_compositor_nodes the tree holds exactly one
\* MCSR_RenderLayers node and exactly one MCSR_Output_<pass> file output node
\* per enabled pass.
C22_CompositorNodes == [][CleanupStep]_vars /\ []OneNodeEach

C22_Witness ==
    /\ call.fn = "setup_compositor_nodes"
    /\ call.calls = 3
    /\ call.passes = <<"lit", "normal">>
    \* of the user's nodes the two without the prefix are left
    /\ scene.nodes \cap OtherNodes = { n \in OtherNodes : n.name[1] = "" }
    /\ Cardinality(scene.nodes) = 19

====
